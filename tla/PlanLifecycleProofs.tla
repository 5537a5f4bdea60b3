------------------------ MODULE PlanLifecycleProofs ------------------------
(***************************************************************************)
(* Theorems about PlanLifecycle, for any callers, bodies and surroundings. *)
(*                                                                         *)
(* The inductive invariant is PlanInv: the versions of the record are      *)
(* numbered by their revisions (HistoryOk), an entry was created for a     *)
(* version its operation may be applied to (EntryOk), what a call read was *)
(* the record once and what it checked still holds of that (CallOk), an    *)
(* entry being written has one worker (WriterOk, OneWriter), and a version *)
(* replaces the one its entry was created for (SubjectInv).  A swap that   *)
(* finds the revision it read therefore finds the record it read.          *)
(***************************************************************************)
EXTENDS PlanLifecycle, TLAPS

-----------------------------------------------------------------------------
(* Identities, requests and versions.                                      *)

(* An identity has a kind that is journalled and a body that is not empty. *)
LEMMA IdentityFacts ==
    /\ \A i \in Identities : i.kind \in Kinds /\ i.candidate \in Digests \ {EmptyDoc}
    /\ NoIdentity \notin Identities /\ ByRetire \notin Identities
    /\ ByRegistration \notin Identities /\ ByRetire # ByRegistration
    /\ ByRetire.kind \notin Kinds /\ ByRegistration.kind \notin Kinds
    /\ NoIdentity.kind \notin Kinds
<1>1. \A i \in Identities : i.kind \in Kinds /\ i.candidate \in Digests \ {EmptyDoc}
  BY PlanAssumption DEF Identities, Identity
<1>2. /\ NoIdentity.kind = "none" /\ ByRetire.kind = "retire"
      /\ ByRegistration.kind = "registered"
  BY DEF NoIdentity, ByRetire, ByRegistration
<1> QED BY <1>1, <1>2 DEF Kinds

(* A request of the surroundings is a request, and has an identity if its  *)
(* operation is journalled.                                                *)
LEMMA RequestFacts ==
    ASSUME scenario \in Scenarios, NEW r \in scenario.requests
    PROVE  /\ r \in Request /\ r \in Requests
           /\ KindOf(r.op) \in Kinds => Identity(r) \in Identities
<1>1. scenario \in Scenario
  BY LifecycleAssumption
<1>2. r \in Request
  BY <1>1 DEF Scenario
<1>3. r \in Requests
  BY DEF Requests
<1> QED BY <1>2, <1>3 DEF Identities

(* The latest version is the record, its number the record's revision, and *)
(* there is none only of a Plan that is not registered.                    *)
LEMMA LatestVersion ==
    ASSUME TypeOK, HistoryOk
    PROVE  /\ timeline = <<>> <=> record = AbsentRecord
           /\ timeline = <<>> <=> record.status = "absent"
           /\ timeline = <<>> <=> record.revision = 0
           /\ timeline # <<>> => record.revision \in Versions /\ record = Version(record.revision)
           /\ record.revision = Len(timeline)
           /\ Versions = 1..Len(timeline) /\ Len(timeline) \in Nat
<1>1. Versions = 1..Len(timeline) /\ Len(timeline) \in Nat
  BY DEF TypeOK, Versions
<1>2. CASE timeline = <<>>
  <2>1. record = AbsentRecord /\ Len(timeline) = 0
    BY <1>2 DEF TypeOK
  <2> QED BY <1>1, <1>2, <2>1 DEF AbsentRecord
<1>3. CASE timeline # <<>>
  <2>1. Len(timeline) \in Versions
    BY <1>1, <1>3 DEF TypeOK
  <2>2. record = Version(Len(timeline))
    BY <1>3 DEF TypeOK, Version
  <2>3. record.revision = Len(timeline) /\ record.status # "absent"
    BY <2>1, <2>2 DEF HistoryOk
  <2> QED BY <1>1, <1>3, <2>1, <2>2, <2>3 DEF AbsentRecord
<1> QED BY <1>2, <1>3

(* A version is a record and who stored it.                                *)
LEMMA VersionTypes ==
    ASSUME TypeOK
    PROVE  \A n \in Versions :
              /\ Version(n) \in Record
              /\ StoredBy(n) \in Identities \cup {ByRetire, ByRegistration}
<1> DEFINE V == [record : Record, by : Identities \cup {ByRetire, ByRegistration}]
<1>1. timeline \in Seq(V)
  BY DEF TypeOK
<1>2. \A n \in Versions : timeline[n] \in V
  <2> HIDE DEF V
  <2> QED BY <1>1 DEF Versions
<1> QED BY <1>2 DEF Version, StoredBy

(* A call that holds the revision of the record holds the record.          *)
LEMMA HeldIsRecord ==
    ASSUME TypeOK, HistoryOk, NEW x, CurrentOk(x), SwapMatches(x.current)
    PROVE  x.current = record
<1>1. CASE x.current = AbsentRecord
  BY <1>1, LatestVersion DEF SwapMatches, AbsentRecord
<1>2. CASE x.current # AbsentRecord
  <2>1. x.current.revision \in Versions /\ x.current = Version(x.current.revision)
    BY <1>2 DEF CurrentOk
  <2>2. timeline # <<>>
    BY <2>1, LatestVersion
  <2> QED BY <2>1, <2>2, LatestVersion DEF SwapMatches
<1> QED BY <1>1, <1>2
-----------------------------------------------------------------------------
(* What every step keeps of entries and versions.                          *)

(* An entry keeps what it was created with, and a success stays one.       *)
EntriesGrow ==
    \A i \in Identities : entry[i].state # "ABSENT" =>
        /\ entry'[i].state # "ABSENT"
        /\ entry'[i].subject = entry[i].subject
        /\ entry'[i].original = entry[i].original
        /\ entry[i].state \in Success => entry'[i].state \in Success

(* Versions are stored for good.                                           *)
VersionsGrow ==
    /\ Versions \subseteq DOMAIN timeline'
    /\ \A n \in Versions : timeline'[n] = timeline[n]

(* A step that leaves the histories alone, or appends, keeps the versions. *)
LEMMA AppendGrows ==
    ASSUME NEW T, timeline \in Seq(T), NEW v \in T, timeline' = Append(timeline, v)
    PROVE  /\ VersionsGrow
           /\ DOMAIN timeline' = 1..(Len(timeline) + 1) /\ Len(timeline') = Len(timeline) + 1
           /\ timeline'[Len(timeline) + 1] = v
  BY DEF VersionsGrow, Versions

(* A step that stores no version keeps them.                               *)
LEMMA SameGrows ==
    ASSUME timeline' = timeline
    PROVE  VersionsGrow
  BY DEF VersionsGrow, Versions

(* What holds of a call that stays where it is goes on holding.            *)
LEMMA CallOkKept ==
    ASSUME EntriesGrow, VersionsGrow, entry' \in [Identities -> Entry],
           NEW x, CallOk(x)
    PROVE  CallOk(x)'
<1>1. CurrentOk(x)'
  BY DEF CallOk, CurrentOk, VersionsGrow, Versions, Version
<1>2. AskOk(x)'
  <2>1. Matches(x.req.key) # {} => Matches(x.req.key)' # {}
    BY DEF Matches, Durable, EntriesGrow
  <2>2. AskOk(x)
    BY DEF CallOk
  <2> HIDE DEF Identity, InitMayCreate, AmendMayCreate, CutoverMayCreate, FinalMayStart
  <2> QED BY <2>1, <2>2 DEF AskOk
<1>3. BindOk(x)'
  <2>1. BindOk(x)
    BY DEF CallOk
  <2>2. x.pc \in Working \cup Binding =>
          /\ entry'[x.id].state # "ABSENT" /\ entry'[x.id].subject = entry[x.id].subject
          /\ entry'[x.id].original = entry[x.id].original
          /\ entry[x.id].state \in Success => entry'[x.id].state \in Success
    BY <2>1 DEF BindOk, EntriesGrow
  <2>3. x.pc = "swap" => MaySwap(x.id, x.current)'
    BY <2>1, <2>2 DEF BindOk, Binding, MaySwap, InitMayBind, AmendmentMayBind, OrphanMayBind,
                      FinalMayBind, CutoverMayBind
  <2>4. x.pc = "resume" /\ x.state \in Success => entry'[x.id].state \in Success
    BY <2>1, <2>2 DEF BindOk, Working
  <2> QED BY <2>1, <2>2, <2>3, <2>4 DEF BindOk
<1> QED BY <1>1, <1>2, <1>3 DEF CallOk

(* What holds of the entries and versions goes on holding while the record *)
(* is not written and no entry is created.                                 *)
LEMMA HistoryKept ==
    ASSUME PlanInv, timeline' = timeline, EntriesGrow
    PROVE  /\ HistoryOk' /\ SubjectInv' /\ BoundOnItsPrecondition'
           /\ BoundIsVerified' /\ RetiredForGood'
           /\ \A i \in Identities : entry[i].state # "ABSENT" => EntryOk(i)'
<1>1. /\ HistoryOk /\ SubjectInv /\ BoundOnItsPrecondition /\ BoundIsVerified /\ RetiredForGood
      /\ \A i \in Identities : EntryOk(i)
  BY DEF PlanInv
<1>2. \A n \in Versions : StoredBy(n).kind \in Kinds =>
         StoredBy(n) \in Identities /\ entry[StoredBy(n)].state # "ABSENT"
  <2>1. \A n \in Versions : StoredBy(n) \in Identities \cup {ByRetire, ByRegistration}
    BY VersionTypes DEF PlanInv
  <2> QED BY <1>1, <2>1, IdentityFacts DEF BoundIsVerified, Success
<1>3. HistoryOk' /\ RetiredForGood'
  BY <1>1 DEF HistoryOk, RetiredForGood, Versions, Version, StoredBy
<1>4. SubjectInv'
  BY <1>1, <1>2 DEF SubjectInv, EntriesGrow, Versions, StoredBy
<1>5. BoundOnItsPrecondition'
  BY <1>1, <1>2 DEF BoundOnItsPrecondition, EntriesGrow, Versions, StoredBy, Version, Bound, Kinds
<1>6. BoundIsVerified'
  BY <1>1, <1>2 DEF BoundIsVerified, EntriesGrow, Versions, StoredBy, Version
<1>7. ASSUME NEW i \in Identities, entry[i].state # "ABSENT"
      PROVE  EntryOk(i)'
  BY <1>1, <1>7 DEF EntryOk, EntriesGrow, Versions, Version, BoundLocally, Bound
<1> QED BY <1>3, <1>4, <1>5, <1>6, <1>7
-----------------------------------------------------------------------------
(* Who wrote the document.                                                 *)

(* Calls reach an unwritten state only by claiming a PREPARED entry, and   *)
(* the entries that were written are not denied: they stay written.        *)
LEMMA WroteKept ==
    ASSUME \A i \in Identities : Wrote(i) =>
               entry'[i].state \notin {"ABSENT", "PREPARED", "FAILED_NO_EFFECT"},
           NEW c \in Callers, NEW y, call \in [Callers -> CallState],
           call' = [call EXCEPT ![c] = y],
           Unwritten(y) => \/ y.id = call[c].id /\ Unwritten(call[c])
                           \/ entry[y.id].state = "PREPARED"
    PROVE  \A i \in Identities : Wrote(i) => Wrote(i)'
<1> SUFFICES ASSUME NEW i \in Identities, Wrote(i) PROVE Wrote(i)'
  OBVIOUS
<1>1. entry'[i].state \notin {"ABSENT", "PREPARED", "FAILED_NO_EFFECT"}
  OBVIOUS
<1>2. ASSUME NEW d \in Callers, call'[d].id = i, call'[d].pc = "mutate" \/ (call'[d].pc = "settle" /\ call'[d].answer = "rejected")
      PROVE  FALSE
  <2>1. CASE d = c
    <3>1. call'[d] = y
      BY <2>1
    <3>2. Unwritten(y) /\ y.id = i
      BY <1>2, <3>1 DEF Unwritten
    <3> QED BY <3>2 DEF Wrote
  <2>2. CASE d # c
    <3>1. call'[d] = call[d]
      BY <2>2
    <3>2. Unwritten(call[d]) /\ call[d].id = i
      BY <1>2, <3>1 DEF Unwritten
    <3> QED BY <3>2 DEF Wrote
  <2> QED BY <2>1, <2>2
<1> QED BY <1>1, <1>2 DEF Wrote, Unwritten

(* While nobody writes document or record: an owner goes on owning unless  *)
(* its verdict becomes a conflict, and settled entries still to be written *)
(* are settled as PendingOk has it.                                        *)
LEMMA DivergenceKept ==
    ASSUME PlanInv, EntriesGrow, UNCHANGED <<scenario, document, record>>,
           \A i \in Identities : Wrote(i) => Wrote(i)',
           NoRivals' => NoRivals,
           NEW c \in Callers, NEW y, call' = [call EXCEPT ![c] = y],
           y.pc = "mutate" => entry'[y.id].state = "APPLYING",
           y.pc \in Verified =>
               /\ y.id \in Identities
               /\ \/ document = y.id.candidate
                  \/ y.id = call[c].id /\ call[c].pc \in Verified,
           scenario.documentEdits = {} => \A i \in Identities :
               /\ Wrote(i) /\ i.candidate = document /\ entry'[i].state = "CONFLICT" =>
                     entry[i].state = "CONFLICT"
               /\ \A d \in Callers \ {c} :
                     /\ call[d].pc = "mutate" /\ call[d].id = i /\ i.kind = "amendment"
                     /\ NoRivals /\ record.status = "active"
                     => \/ entry'[i].state = entry[i].state
                        \/ /\ entry'[i].state # "CONFLICT"
                           /\ entry'[i].state \in Success => i.candidate = entry[i].original
    PROVE  DivergenceInv'
<1> SUFFICES ASSUME scenario.documentEdits = {}
             PROVE  /\ DocumentOk'
                    /\ \A d \in Callers : VerifiedOk(call[d])' /\ PendingOk(call[d])'
  BY DEF DivergenceInv
<1>1. /\ DocumentOk /\ \A d \in Callers : VerifiedOk(call[d]) /\ PendingOk(call[d]) /\ CallOk(call[d])
      /\ call \in [Callers -> CallState] /\ entry \in [Identities -> Entry]
  BY DEF PlanInv, DivergenceInv, TypeOK
<1>2. \A i \in Identities : Wrote(i) => entry[i].state # "ABSENT"
  BY DEF Wrote
<1>3. \A i \in Identities : Owns(i) => Owns(i)'
  BY <1>2 DEF Owns, EntriesGrow
<1>4. DocumentOk'
  BY <1>1, <1>3 DEF DocumentOk
<1>5. \A d \in Callers : d # c => call'[d] = call[d]
  BY <1>1
<1>6. call'[c] = y
  BY <1>1
<1>7. ASSUME NEW d \in Callers PROVE VerifiedOk(call[d])'
  <2>1. CASE d # c
    <3>1. call'[d] = call[d]
      BY <1>5, <2>1
    <3>2. call[d].pc \in Verified => call[d].id \in Identities /\ entry[call[d].id].state # "ABSENT"
      BY <1>1 DEF CallOk, BindOk, Verified, Binding
    <3> QED BY <1>1, <3>1, <3>2 DEF VerifiedOk, EntriesGrow
  <2>2. CASE d = c /\ y.pc \in Verified /\ document = y.id.candidate
    BY <1>6, <2>2 DEF VerifiedOk
  <2>3. CASE d = c /\ y.pc \in Verified /\ y.id = call[c].id /\ call[c].pc \in Verified
    <3>1. call[c].id \in Identities /\ entry[call[c].id].state # "ABSENT"
      BY <1>1, <2>3 DEF CallOk, BindOk, Verified, Binding
    <3>2. VerifiedOk(call[c])
      BY <1>1
    <3> QED BY <1>6, <2>3, <3>1, <3>2 DEF VerifiedOk, EntriesGrow
  <2>4. CASE d = c /\ y.pc \notin Verified
    BY <1>6, <2>4 DEF VerifiedOk
  <2> QED BY <2>1, <2>2, <2>3, <2>4
<1>8. ASSUME NEW d \in Callers PROVE PendingOk(call[d])'
  <2>1. CASE d # c
    <3>1. call'[d] = call[d] /\ PendingOk(call[d])
      BY <1>1, <1>5, <2>1
    <3>2. call[d].pc = "mutate" => call[d].id \in Identities /\ entry[call[d].id].state # "ABSENT"
      BY <1>1 DEF CallOk, BindOk, Working
    <3>3. SUFFICES ASSUME call[d].pc = "mutate", call[d].id.kind = "amendment", NoRivals,
                          record.status = "active"
                   PROVE  /\ entry'[call[d].id].state # "CONFLICT"
                          /\ entry'[call[d].id].state \in Success =>
                                call[d].id.candidate = entry'[call[d].id].original
      BY <3>1 DEF PendingOk
    <3>4. /\ entry[call[d].id].state # "CONFLICT"
          /\ entry[call[d].id].state \in Success => call[d].id.candidate = entry[call[d].id].original
      BY <3>1, <3>3 DEF PendingOk
    <3>5. \/ entry'[call[d].id].state = entry[call[d].id].state
          \/ /\ entry'[call[d].id].state # "CONFLICT"
             /\ entry'[call[d].id].state \in Success =>
                   call[d].id.candidate = entry[call[d].id].original
      BY <2>1, <3>2, <3>3
    <3>6. entry'[call[d].id].original = entry[call[d].id].original
      BY <3>2, <3>3 DEF EntriesGrow
    <3> QED BY <3>4, <3>5, <3>6
  <2>2. CASE d = c
    BY <1>6, <2>2 DEF PendingOk, Success
  <2> QED BY <2>1, <2>2
<1> QED BY <1>4, <1>7, <1>8
-----------------------------------------------------------------------------
(* A step that only moves a call keeps the invariant if the call is as     *)
(* CallOk has it where it arrives.                                         *)
LEMMA CallMoves ==
    ASSUME PlanInv, UNCHANGED Stores, NEW c \in Callers, NEW y \in CallState,
           call' = [call EXCEPT ![c] = y], CallOk(y),
           y.pc # "mutate",
           y.pc = "settle" => call[c].pc = "mutate" /\ y.id = call[c].id,
           y.pc \in Verified =>
               \/ document = y.id.candidate
               \/ y.id = call[c].id /\ call[c].pc \in Verified
    PROVE  PlanInv'
<1>1. /\ TypeOK /\ \A d \in Callers : CallOk(call[d]) /\ WriterOk(d)
      /\ call \in [Callers -> CallState] /\ entry \in [Identities -> Entry]
      /\ OneWriter /\ ReportedIsTrue
  BY DEF PlanInv, TypeOK
<1>2. /\ scenario' = scenario /\ document' = document /\ source' = source /\ record' = record
      /\ entry' = entry /\ timeline' = timeline /\ reported' = reported
  BY DEF Stores
<1>3. EntriesGrow /\ VersionsGrow
  BY <1>2, SameGrows DEF EntriesGrow
<1>4. TypeOK'
  BY <1>1, <1>2 DEF TypeOK
<1>5. \A d \in Callers : call'[d] = IF d = c THEN y ELSE call[d]
  BY <1>1
<1>6. /\ HistoryOk' /\ SubjectInv' /\ BoundOnItsPrecondition'
      /\ BoundIsVerified' /\ RetiredForGood'
  BY <1>2, <1>3, HistoryKept
<1>7. \A i \in Identities : EntryOk(i)'
  BY <1>2 DEF PlanInv, EntryOk, Versions, Version, BoundLocally, Bound
<1>8. ASSUME NEW d \in Callers PROVE CallOk(call[d])'
  <2>1. CASE d = c
    BY <1>2, <1>5, <2>1 DEF CallOk, CurrentOk, AskOk, BindOk, MaySwap, AmendmentMayBind, OrphanMayBind,
        FinalMayBind, CutoverMayBind, Matches, Durable, Versions, Version
  <2>2. CASE d # c
    BY <1>1, <1>2, <1>5, <2>2 DEF CallOk, CurrentOk, AskOk, BindOk, MaySwap, AmendmentMayBind, OrphanMayBind,
        FinalMayBind, CutoverMayBind, Matches, Durable, Versions, Version
  <2> QED BY <2>1, <2>2
<1>9. ASSUME NEW d \in Callers PROVE WriterOk(d)'
  BY <1>1, <1>2, <1>5 DEF WriterOk, At
<1>10. OneWriter'
  BY <1>1, <1>5 DEF OneWriter
<1>11. ReportedIsTrue'
  BY <1>1, <1>2 DEF ReportedIsTrue, Versions, Version, BoundLocally, Bound
<1>12. DivergenceInv'
  <2>1. \A i \in Identities : Wrote(i) => Wrote(i)'
    <3>1. Unwritten(y) => y.id = call[c].id /\ Unwritten(call[c])
      BY DEF Unwritten
    <3>2. \A i \in Identities : Wrote(i) => entry'[i].state \notin {"ABSENT", "PREPARED", "FAILED_NO_EFFECT"}
      BY <1>2 DEF Wrote
    <3> QED BY <1>1, <3>1, <3>2, WroteKept
  <2>2. NoRivals' => NoRivals
    BY <1>2 DEF NoRivals, Durable
  <2>3. y.pc \in Verified => y.id \in Identities
    BY DEF CallOk, BindOk, Verified, Binding
  <2> QED BY <1>2, <1>3, <2>1, <2>2, <2>3, DivergenceKept
<1> QED BY <1>4, <1>6, <1>7, <1>8, <1>9, <1>10, <1>11, <1>12 DEF PlanInv
-----------------------------------------------------------------------------
(* Settling entries.                                                       *)

(* Where no two requests were admitted for one version, an amendment of an *)
(* active Plan is bound, or of the latest version.                         *)
LEMMA AmendmentAtHead ==
    ASSUME TypeOK, HistoryOk, SubjectInv, BoundIsVerified, NoRivals, record.status = "active",
           NEW i \in Identities, i.kind = "amendment", entry[i].state # "ABSENT", EntryOk(i)
    PROVE  /\ entry[i].state \in Success \/ entry[i].subject = record.revision
           /\ record.kind = "local_governance"
           /\ entry[i].subject = record.revision => record.digest = entry[i].original
<1> DEFINE k == entry[i].subject
<1>1. /\ k \in Versions /\ Version(k).status = "active"
      /\ Version(k).kind = "local_governance" /\ Version(k).digest = entry[i].original
  BY DEF EntryOk, Kinds, BoundLocally, Bound
<1>2. /\ record.revision \in Versions /\ record = Version(record.revision)
      /\ Versions = 1..record.revision /\ record.revision \in Nat
  BY <1>1, LatestVersion
<1>3. record.kind = "local_governance"
  BY <1>1, <1>2 DEF HistoryOk
<1>4. ASSUME k # record.revision PROVE entry[i].state \in Success
  <2>1. k + 1 \in Versions
    BY <1>1, <1>2, <1>4
  <2>2. StoredBy(k + 1) # ByRegistration
    BY <1>1, <1>2, <2>1 DEF HistoryOk
  <2>3. StoredBy(k + 1) # ByRetire
    <3>1. Version(k + 1).status # "retired"
      BY <1>2, <2>1 DEF HistoryOk
    <3> QED BY <2>1, <3>1 DEF HistoryOk
  <2>4. StoredBy(k + 1) \in Identities
    BY <2>1, <2>2, <2>3, VersionTypes
  <2>5. entry[StoredBy(k + 1)].subject = (k + 1) - 1 /\ entry[StoredBy(k + 1)].state \in Success
    BY <2>1, <2>4, IdentityFacts DEF SubjectInv, BoundIsVerified
  <2>6. entry[StoredBy(k + 1)].subject = k /\ StoredBy(k + 1) \in Durable
    BY <1>1, <1>2, <2>4, <2>5 DEF Durable, Success
  <2>7. StoredBy(k + 1) = i
    BY <2>6 DEF NoRivals, Durable
  <2> QED BY <2>5, <2>7
<1> QED BY <1>1, <1>2, <1>3, <1>4

(* ... and one still to be written and not bound finds the document it     *)
(* expects, when nobody else writes it.                                    *)
LEMMA PendingFindsOriginal ==
    ASSUME PlanInv, scenario.documentEdits = {}, NoRivals, record.status = "active",
           NEW d \in Callers, call[d].pc = "mutate", call[d].id.kind = "amendment",
           entry[call[d].id].state \notin Success
    PROVE  document = entry[call[d].id].original
<1> DEFINE i == call[d].id
<1>1. i \in Identities /\ entry[i].state # "ABSENT" /\ EntryOk(i)
  BY DEF PlanInv, CallOk, BindOk, Working
<1>2. /\ entry[i].subject = record.revision
      /\ record.kind = "local_governance" /\ record.digest = entry[i].original
  BY <1>1, AmendmentAtHead DEF PlanInv
<1>3. ASSUME NEW w \in Identities, Owns(w) PROVE FALSE
  <2>1. w \in Durable /\ i \in Durable /\ entry[w].subject = entry[i].subject
    BY <1>1, <1>2, <1>3 DEF Owns, Wrote, Durable
  <2>2. w = i
    BY <2>1 DEF NoRivals
  <2> QED BY <1>3, <2>2 DEF Owns, Wrote, Unwritten
<1> QED BY <1>2, <1>3 DEF PlanInv, DivergenceInv, DocumentOk

(* A step that writes an entry in the journal and moves a call.            *)
LEMMA EntryMoves ==
    ASSUME PlanInv, UNCHANGED <<scenario, document, source, record, timeline>>,
           NEW i \in Identities, NEW e \in Entry, entry' = [entry EXCEPT ![i] = e],
           entry[i].state # "ABSENT", e.state # "ABSENT",
           e.subject = entry[i].subject, e.original = entry[i].original,
           entry[i].state \in Success => e.state \in Success,
           e.state = "PREPARED" => entry[i].state = "PREPARED",
           NEW c \in Callers, NEW y \in CallState, call' = [call EXCEPT ![c] = y],
           CallOk(y)',
           y.pc # "settle", y.pc \notin Verified,
           y.pc = "mutate" => y.id = i /\ entry[i].state = "PREPARED" /\ e.state = "APPLYING",
           e.state = "FAILED_NO_EFFECT" =>
               \/ entry[i].state \in {"PREPARED", "FAILED_NO_EFFECT"}
               \/ call[c].pc = "settle" /\ call[c].id = i /\ call[c].answer = "rejected",
           e.state = "CONFLICT" =>
               entry[i].state = "CONFLICT" \/ document \notin {entry[i].original, i.candidate},
           e.state \in Success => entry[i].state \in Success \/ document = i.candidate,
           ReportedIsTrue', \A x \in reported' : x.id \in Identities \cup {ByRetire}
    PROVE  PlanInv'
<1>1. /\ TypeOK /\ \A d \in Callers : CallOk(call[d]) /\ WriterOk(d)
      /\ call \in [Callers -> CallState] /\ entry \in [Identities -> Entry]
      /\ OneWriter
  BY DEF PlanInv, TypeOK
<1>2. EntriesGrow /\ VersionsGrow
  BY <1>1, SameGrows DEF EntriesGrow
<1>3. entry' \in [Identities -> Entry]
  BY <1>1
<1>4. TypeOK'
  BY <1>1, <1>3 DEF TypeOK
<1>5. \A d \in Callers : call'[d] = IF d = c THEN y ELSE call[d]
  BY <1>1
<1>6. /\ HistoryOk' /\ SubjectInv' /\ BoundOnItsPrecondition'
      /\ BoundIsVerified' /\ RetiredForGood'
      /\ \A j \in Identities : entry[j].state # "ABSENT" => EntryOk(j)'
  BY <1>2, HistoryKept
<1>7. \A j \in Identities : EntryOk(j)'
  BY <1>1, <1>6 DEF EntryOk
<1>8. ASSUME NEW d \in Callers PROVE CallOk(call[d])'
  <2>1. CASE d = c
    BY <1>5, <2>1 DEF CallOk, CurrentOk, AskOk, BindOk, MaySwap, AmendmentMayBind, OrphanMayBind,
        FinalMayBind, CutoverMayBind, Matches, Durable, Versions, Version
  <2>2. CASE d # c
    <3>1. PICK x : x = call[d] /\ CallOk(x)
      BY <1>1
    <3>2. call'[d] = x
      BY <1>5, <2>2, <3>1
    <3>3. CallOk(x)'
      BY <1>2, <1>3, <3>1, CallOkKept
    <3> QED BY <3>2, <3>3 DEF CallOk, CurrentOk, AskOk, BindOk, MaySwap, AmendmentMayBind, OrphanMayBind,
        FinalMayBind, CutoverMayBind, Matches, Durable, Versions, Version
  <2> QED BY <2>1, <2>2
<1>9. ASSUME NEW d \in Callers PROVE WriterOk(d)'
  <2>1. CASE d = c
    BY <1>1, <1>5, <2>1 DEF WriterOk, At
  <2>2. CASE d # c
    <3>1. call'[d] = call[d] /\ WriterOk(d)
      BY <1>1, <1>5, <2>2
    <3>2. call[d].pc \in {"mutate", "settle"} => call[d].id \in Identities
      BY <1>1 DEF CallOk, BindOk, Working
    <3>3. call[d].pc \in {"mutate", "settle"} /\ call[d].id = i => call[c].id # i \/ call[c].pc # "settle"
      BY <1>1, <2>2 DEF OneWriter
    <3> QED BY <1>1, <3>1, <3>2, <3>3 DEF WriterOk, At
  <2> QED BY <2>1, <2>2
<1>10. OneWriter'
  <2>1. \A d \in Callers : d # c /\ y.pc = "mutate" /\ call[d].pc \in {"mutate", "settle"} => call[d].id # y.id
    BY <1>1 DEF WriterOk, At
  <2> QED BY <1>1, <1>5, <2>1 DEF OneWriter
<1>11. DivergenceInv'
  <2>1. \A j \in Identities : Wrote(j) => Wrote(j)'
    <3>1. Unwritten(y) => entry[y.id].state = "PREPARED"
      BY DEF Unwritten
    <3>2. ASSUME NEW j \in Identities, Wrote(j)
          PROVE  entry'[j].state \notin {"ABSENT", "PREPARED", "FAILED_NO_EFFECT"}
      BY <1>1, <3>2 DEF Wrote, Unwritten
    <3> QED BY <1>1, <3>1, <3>2, WroteKept
  <2>2. NoRivals' => NoRivals
    BY <1>1, <1>3 DEF NoRivals, Durable
  <2>3. \A j \in Identities : Wrote(j) /\ j.candidate = document /\ entry'[j].state = "CONFLICT" =>
            entry[j].state = "CONFLICT"
    BY <1>1
  <2>4. ASSUME scenario.documentEdits = {}, NEW j \in Identities, NEW d \in Callers \ {c},
               call[d].pc = "mutate", call[d].id = j, j.kind = "amendment",
               NoRivals, record.status = "active"
        PROVE  \/ entry'[j].state = entry[j].state
               \/ /\ entry'[j].state # "CONFLICT"
                  /\ entry'[j].state \in Success => j.candidate = entry[j].original
    <3>1. CASE j # i
      BY <1>1, <3>1
    <3>2. CASE j = i /\ entry[i].state \in Success
      <4>1. PendingOk(call[d])
        BY <2>4 DEF PlanInv, DivergenceInv
      <4>2. i.candidate = entry[i].original
        BY <2>4, <3>2, <4>1 DEF PendingOk
      <4> QED BY <1>1, <3>2, <4>2 DEF Success
    <3>3. CASE j = i /\ entry[i].state \notin Success
      <4>1. document = entry[i].original
        BY <2>4, <3>3, PendingFindsOriginal
      <4> QED BY <1>1, <3>3, <4>1
    <3> QED BY <3>1, <3>2, <3>3
  <2>5. y.pc = "mutate" => entry'[y.id].state = "APPLYING"
    BY <1>1
  <2>6. scenario.documentEdits = {} => \A j \in Identities :
               /\ Wrote(j) /\ j.candidate = document /\ entry'[j].state = "CONFLICT" =>
                     entry[j].state = "CONFLICT"
               /\ \A d \in Callers \ {c} :
                     /\ call[d].pc = "mutate" /\ call[d].id = j /\ j.kind = "amendment"
                     /\ NoRivals /\ record.status = "active"
                     => \/ entry'[j].state = entry[j].state
                        \/ /\ entry'[j].state # "CONFLICT"
                           /\ entry'[j].state \in Success => j.candidate = entry[j].original
    BY <2>3, <2>4
  <2> QED BY <1>2, <2>1, <2>2, <2>5, <2>6, DivergenceKept
<1> QED BY <1>4, <1>6, <1>7, <1>8, <1>9, <1>10, <1>11 DEF PlanInv
-----------------------------------------------------------------------------
(* Storing a version of the record.                                        *)

(* A commit that keeps the life of the record, over the version its entry  *)
(* was created for.                                                        *)
LEMMA CommitMoves ==
    ASSUME PlanInv, UNCHANGED <<scenario, document, source, entry, reported>>,
           NEW new \in Record, NEW by \in Identities \cup {ByRetire}, Commit(new, by),
           NEW c \in Callers, NEW y \in CallState, call' = [call EXCEPT ![c] = y],
           CallOk(y)',
           y.pc \notin {"mutate", "settle"} \cup Verified,
           new.revision = record.revision + 1, new.status # "absent", new.kind # "none",
           new.digest \in Digests \ {EmptyDoc},
           record.kind = "local_governance" => new.kind = "local_governance",
           record.status = "retired" => new.status = "retired" /\ by.kind = "final",
           by = ByRetire => new.status = "retired",
           by \in Identities =>
               /\ entry[by].subject = record.revision /\ entry[by].state \in Success
               /\ new.kind = "local_governance" /\ new.digest = by.candidate
               /\ by.kind # "init" =>
                     /\ timeline # <<>> /\ new.status = record.status
                     /\ Bound(record, IF by.kind = "cutover" THEN "github_issue"
                                      ELSE "local_governance", by.expected),
           scenario.documentEdits = {} /\ new.status = "active" =>
               \/ document = new.digest
               \/ ~NoRivals /\ \E i \in Identities : Wrote(i) /\ i.candidate = document
    PROVE  PlanInv'
<1> DEFINE v == [record |-> new, by |-> by]
<1>0. PICK n1 : n1 = Len(timeline) + 1
  OBVIOUS
<1>1. /\ TypeOK /\ HistoryOk /\ \A d \in Callers : CallOk(call[d]) /\ WriterOk(d)
      /\ call \in [Callers -> CallState] /\ entry \in [Identities -> Entry]
      /\ OneWriter /\ SubjectInv /\ BoundOnItsPrecondition /\ BoundIsVerified
      /\ RetiredForGood /\ ReportedIsTrue /\ \A i \in Identities : EntryOk(i)
  BY DEF PlanInv, TypeOK
<1>2. record' = new /\ timeline' = Append(timeline, v)
  BY DEF Commit
<1>3. /\ timeline \in Seq([record : Record, by : Identities \cup {ByRetire, ByRegistration}])
      /\ v \in [record : Record, by : Identities \cup {ByRetire, ByRegistration}]
  BY <1>1 DEF TypeOK
<1>4. /\ VersionsGrow /\ Len(timeline') = n1 /\ DOMAIN timeline' = 1..n1
      /\ timeline'[n1] = v
  BY <1>0, <1>2, <1>3, AppendGrows
<1>5. EntriesGrow
  BY DEF EntriesGrow
<1>6. /\ Len(timeline) = record.revision /\ Versions = 1..record.revision
      /\ record.revision \in Nat /\ n1 = record.revision + 1
      /\ timeline # <<>> => record.revision \in Versions /\ record = Version(record.revision)
      /\ timeline = <<>> <=> record.revision = 0
      /\ timeline = <<>> <=> record.status = "absent"
  BY <1>0, <1>1, LatestVersion
<1>7. /\ \A n \in Versions : n \in Nat /\ n # n1 /\ n <= record.revision /\ timeline'[n] = timeline[n]
      /\ \A n \in Versions' : n \in Versions \/ n = n1
      /\ Versions' = 1..n1
  BY <1>4, <1>6 DEF Versions, VersionsGrow
<1>8. /\ \A n \in Versions : Version(n)' = Version(n) /\ StoredBy(n)' = StoredBy(n)
      /\ Version(n1)' = new /\ StoredBy(n1)' = by
  BY <1>4, <1>7 DEF Version, StoredBy, v
<1>9. TypeOK'
  <2>1. timeline' \in Seq([record : Record, by : Identities \cup {ByRetire, ByRegistration}])
    BY <1>2, <1>3
  <2>2. record' = IF timeline' = <<>> THEN AbsentRecord ELSE timeline'[Len(timeline')].record
    BY <1>2, <1>4
  <2> QED BY <1>1, <1>2, <2>1, <2>2 DEF TypeOK
<1>10. \A d \in Callers : call'[d] = IF d = c THEN y ELSE call[d]
  BY <1>1
<1> HIDE DEF v
<1>11. HistoryOk'
  <2>1. ASSUME NEW n \in Versions'
        PROVE  /\ Version(n)'.revision = n /\ Version(n)'.status # "absent"
               /\ Version(n)'.kind # "none" /\ Version(n)'.digest \in Digests \ {EmptyDoc}
               /\ StoredBy(n)' = ByRegistration => n = 1
               /\ StoredBy(n)' = ByRetire => Version(n)'.status = "retired"
    <3>1. CASE n \in Versions
      BY <1>1, <1>8, <3>1 DEF HistoryOk
    <3>2. CASE n = n1
      BY <1>6, <1>8, <3>2, IdentityFacts
    <3> QED BY <1>7, <3>1, <3>2
  <2>2. ASSUME NEW m \in Versions', NEW n \in Versions', m <= n
        PROVE  /\ Version(m)'.kind = "local_governance" => Version(n)'.kind = "local_governance"
               /\ Version(m)'.status = "retired" => Version(n)'.status = "retired"
    <3>1. CASE m \in Versions /\ n \in Versions
      BY <1>1, <1>8, <2>2, <3>1 DEF HistoryOk
    <3>2. CASE m \in Versions /\ n = n1
      <4>1. record.revision \in Versions /\ m <= record.revision /\ record = Version(record.revision)
        BY <1>6, <1>7, <3>2
      <4>2. /\ Version(m).kind = "local_governance" => record.kind = "local_governance"
            /\ Version(m).status = "retired" => record.status = "retired"
        BY <1>1, <3>2, <4>1 DEF HistoryOk
      <4> QED BY <1>8, <3>2, <4>2
    <3>3. CASE m = n1 /\ n = n1
      BY <1>8, <3>3
    <3>4. ~(m = n1 /\ n \in Versions)
      BY <1>6, <1>7, <2>2
    <3> QED BY <1>7, <3>1, <3>2, <3>3, <3>4
  <2> QED BY <2>1, <2>2 DEF HistoryOk
<1>12. \A i \in Identities : EntryOk(i)'
  <2>1. SUFFICES ASSUME NEW i \in Identities, entry[i].state # "ABSENT" PROVE EntryOk(i)'
    BY DEF EntryOk
  <2>2. EntryOk(i)
    BY <1>1
  <2>3. Versions \subseteq Versions'
    BY <1>4 DEF VersionsGrow, Versions
  <2> QED BY <1>8, <2>2, <2>3 DEF EntryOk, BoundLocally, Bound, Kinds
<1>13. ASSUME NEW d \in Callers PROVE CallOk(call[d])'
  <2>1. CASE d = c
    BY <1>10, <2>1 DEF CallOk, CurrentOk, AskOk, BindOk, MaySwap, AmendmentMayBind, OrphanMayBind,
        FinalMayBind, CutoverMayBind, Matches, Durable, Versions, Version
  <2>2. CASE d # c
    <3>1. PICK x : x = call[d] /\ CallOk(x)
      BY <1>1
    <3>2. call'[d] = x
      BY <1>10, <2>2, <3>1
    <3>3. CallOk(x)'
      BY <1>1, <1>4, <1>5, <3>1, CallOkKept
    <3> QED BY <3>2, <3>3 DEF CallOk, CurrentOk, AskOk, BindOk, MaySwap, AmendmentMayBind, OrphanMayBind,
        FinalMayBind, CutoverMayBind, Matches, Durable, Versions, Version
  <2> QED BY <2>1, <2>2
<1>14. \A d \in Callers : WriterOk(d)'
  BY <1>1, <1>10 DEF WriterOk, At
<1>15. OneWriter'
  BY <1>1, <1>10 DEF OneWriter
<1>16. SubjectInv'
  BY <1>1, <1>6, <1>7, <1>8, IdentityFacts DEF SubjectInv
<1>17. BoundOnItsPrecondition'
  <2>1. SUFFICES ASSUME NEW n \in Versions', StoredBy(n)'.kind \in Kinds \ {"init"}
                 PROVE  /\ n > 1 /\ entry[StoredBy(n)'].subject = n - 1
                        /\ Bound(Version(n - 1), IF StoredBy(n).kind = "cutover" THEN "github_issue"
                                 ELSE "local_governance", StoredBy(n).expected)'
                        /\ Version(n)'.status = Version(n - 1)'.status
    BY DEF BoundOnItsPrecondition
  <2>2. CASE n \in Versions
    <3>1. /\ n > 1 /\ entry[StoredBy(n)].subject = n - 1
          /\ Bound(Version(n - 1), IF StoredBy(n).kind = "cutover" THEN "github_issue"
                                   ELSE "local_governance", StoredBy(n).expected)
          /\ Version(n).status = Version(n - 1).status
      BY <1>1, <1>8, <2>1, <2>2 DEF BoundOnItsPrecondition
    <3>2. n - 1 \in Versions
      BY <1>6, <2>2, <3>1
    <3> QED BY <1>8, <2>2, <3>1, <3>2 DEF Bound
  <2>3. CASE n = n1
    <3>1. StoredBy(n)' = by /\ by \in Identities /\ by.kind # "init"
      BY <1>8, <2>1, <2>3, IdentityFacts
    <3>2. /\ n - 1 = record.revision /\ record.revision \in Versions /\ n > 1
          /\ Version(n - 1)' = record
      BY <1>6, <1>7, <1>8, <2>3, <3>1
    <3> QED BY <1>8, <2>3, <3>1, <3>2 DEF Bound
  <2> QED BY <1>7, <2>2, <2>3
<1>18. BoundIsVerified'
  <2>1. SUFFICES ASSUME NEW n \in Versions', StoredBy(n)'.kind \in Kinds
                 PROVE  /\ Version(n)'.digest = StoredBy(n)'.candidate
                        /\ Version(n)'.kind = "local_governance"
                        /\ entry[StoredBy(n)'].state \in Success
    BY DEF BoundIsVerified
  <2>2. CASE n \in Versions
    BY <1>1, <1>8, <2>1, <2>2 DEF BoundIsVerified
  <2>3. CASE n = n1
    BY <1>8, <2>1, <2>3, IdentityFacts
  <2> QED BY <1>7, <2>2, <2>3
<1>19. RetiredForGood'
  <2>1. SUFFICES ASSUME NEW n \in Versions', n > 1, Version(n - 1)'.status = "retired"
                 PROVE  Version(n)'.status = "retired" /\ StoredBy(n)'.kind = "final"
    BY DEF RetiredForGood
  <2>2. CASE n \in Versions
    <3>1. n - 1 \in Versions
      BY <1>6, <2>1, <2>2
    <3> QED BY <1>1, <1>8, <2>1, <2>2, <3>1 DEF RetiredForGood
  <2>3. CASE n = n1
    <3>1. /\ record.revision \in Versions /\ Version(n - 1)' = record
      BY <1>6, <1>7, <1>8, <2>1, <2>3
    <3> QED BY <1>8, <2>1, <2>3, <3>1
  <2> QED BY <1>7, <2>2, <2>3
<1>20. ReportedIsTrue'
  <2>1. \A n \in Versions : n \in Versions' /\ Version(n)' = Version(n)
    BY <1>7, <1>8, <1>4 DEF VersionsGrow, Versions
  <2> QED BY <1>1, <2>1 DEF ReportedIsTrue, BoundLocally, Bound
<1>21. DivergenceInv'
  <2> SUFFICES ASSUME scenario.documentEdits = {}
               PROVE  /\ DocumentOk'
                      /\ \A d \in Callers : VerifiedOk(call[d])' /\ PendingOk(call[d])'
    BY DEF DivergenceInv
  <2>1. \A i \in Identities : Wrote(i) => Wrote(i)'
    <3>1. ~Unwritten(y)
      BY DEF Unwritten
    <3>2. \A i \in Identities : Wrote(i) => entry'[i].state \notin {"ABSENT", "PREPARED", "FAILED_NO_EFFECT"}
      BY DEF Wrote
    <3> QED BY <1>1, <3>1, <3>2, WroteKept
  <2>2. NoRivals' <=> NoRivals
    BY DEF NoRivals, Durable
  <2>3. DocumentOk'
    BY <1>2, <2>1, <2>2 DEF DocumentOk, Owns
  <2>4. \A i \in Identities : entry[i].state # "ABSENT" => entry[i].subject # new.revision
    BY <1>1, <1>6 DEF EntryOk
  <2>5. ASSUME NEW d \in Callers PROVE VerifiedOk(call[d])' /\ PendingOk(call[d])'
    <3>1. CASE d = c
      BY <1>10, <3>1 DEF VerifiedOk, PendingOk
    <3>2. CASE d # c
      <4>1. call'[d] = call[d] /\ VerifiedOk(call[d]) /\ PendingOk(call[d])
        BY <1>10, <3>2 DEF PlanInv, DivergenceInv
      <4>2. call[d].pc \in Verified \cup {"mutate"} =>
                call[d].id \in Identities /\ entry[call[d].id].state # "ABSENT"
        BY <1>1 DEF CallOk, BindOk, Verified, Binding, Working
      <4>3. VerifiedOk(call[d])'
        BY <1>2, <2>1, <2>2, <2>4, <4>1, <4>2 DEF VerifiedOk
      <4>4. call[d].pc = "mutate" /\ call[d].id.kind = "amendment" /\ new.status = "active" =>
                record.status = "active"
        <5>1. call[d].pc = "mutate" /\ call[d].id.kind = "amendment" => entry[call[d].id].subject \in Versions
          BY <1>1, <4>2 DEF EntryOk, Kinds
        <5>2. record.status \in Statuses
          BY <1>1 DEF TypeOK, Record
        <5> QED BY <1>6, <5>1, <5>2 DEF Statuses
      <4>5. PendingOk(call[d])'
        BY <1>2, <2>2, <4>1, <4>4 DEF PendingOk
      <4> QED BY <4>3, <4>5
    <3> QED BY <3>1, <3>2
  <2> QED BY <2>3, <2>5
<1> QED BY <1>9, <1>11, <1>12, <1>13, <1>14, <1>15, <1>16, <1>17, <1>18, <1>19, <1>20, <1>21 DEF PlanInv
-----------------------------------------------------------------------------
(* Writing the document.                                                   *)

(* What the port finds where it writes: a document it does not change, or  *)
(* none, or the one the entry expects.                                     *)
LEMMA WriteFinds ==
    ASSUME NEW i \in Identities, entry[i].state # "ABSENT", EntryOk(i),
           ~PortRefuses(PortIntent(i), document)
    PROVE  \/ document = i.candidate
           \/ document = EmptyDoc
           \/ i.kind = "amendment" /\ document = entry[i].original
           \/ i.kind = "final"
<1>1. entry[i].original \in Digests /\ i.kind \in Kinds
  BY IdentityFacts DEF EntryOk
<1>2. entry[i].original = document
  BY <1>1, LifecycleAssumption DEF PortRefuses, PortIntent
<1>3. document \in {EmptyDoc, i.candidate} \/ i.kind \in {"amendment", "final", "orphan"}
  BY DEF PortRefuses, PortIntent
<1>4. i.kind = "orphan" => document = i.candidate
  BY <1>2 DEF EntryOk
<1> QED BY <1>1, <1>2, <1>3, <1>4 DEF Kinds

(* A write keeps the invariant.                                            *)
LEMMA LandsMoves ==
    ASSUME PlanInv, NEW c \in Callers, NEW answer \in {"applied", "unknown"},
           MutateLands(c, answer)
    PROVE  PlanInv'
<1>1. PICK i : i = call[c].id
  OBVIOUS
<1>2. PICK y : y = [call[c] EXCEPT !.pc = "settle", !.answer = answer]
  OBVIOUS
<1>3. /\ call[c].pc = "mutate" /\ ~PortRefuses(PortIntent(i), document)
      /\ document' = i.candidate /\ call' = [call EXCEPT ![c] = y]
      /\ UNCHANGED <<scenario, source, record, entry, timeline, reported>>
  BY <1>1, <1>2 DEF MutateLands, At
<1>4. /\ TypeOK /\ \A d \in Callers : CallOk(call[d]) /\ WriterOk(d)
      /\ call \in [Callers -> CallState] /\ entry \in [Identities -> Entry]
      /\ OneWriter /\ ReportedIsTrue /\ \A j \in Identities : EntryOk(j)
      /\ HistoryOk /\ SubjectInv /\ BoundIsVerified
  BY DEF PlanInv, TypeOK
<1>5. /\ i \in Identities /\ entry[i].state \notin {"ABSENT", "PREPARED", "FAILED_NO_EFFECT"}
      /\ EntryOk(i) /\ i.candidate \in Digests \ {EmptyDoc}
  BY <1>1, <1>3, <1>4, IdentityFacts DEF CallOk, BindOk, Working, WriterOk, At
<1>6. /\ y \in CallState /\ y.pc = "settle" /\ y.id = i /\ y.answer = answer /\ answer # "rejected"
      /\ y.req = call[c].req /\ y.current = call[c].current
  BY <1>1, <1>2, <1>4, <1>3 DEF CallState, Working
<1>7. \A d \in Callers : call'[d] = IF d = c THEN y ELSE call[d]
  BY <1>3, <1>4
<1>8. TypeOK'
  BY <1>3, <1>4, <1>5, <1>6 DEF TypeOK
<1>9. EntriesGrow
  BY <1>3 DEF EntriesGrow
<1>10. /\ HistoryOk' /\ SubjectInv' /\ BoundOnItsPrecondition'
       /\ BoundIsVerified' /\ RetiredForGood'
  BY <1>3, <1>9, HistoryKept
<1>11. \A j \in Identities : EntryOk(j)'
  BY <1>3, <1>4 DEF EntryOk, Versions, Version, BoundLocally, Bound
<1>12. ASSUME NEW d \in Callers PROVE CallOk(call[d])'
  <2>1. CallOk(call'[d])
    <3>1. CallOk(y)
      BY <1>1, <1>3, <1>4, <1>6 DEF CallOk, CurrentOk, AskOk, BindOk, Working, Binding, Asking, Retiring
    <3> QED BY <1>4, <1>7, <3>1
  <2> QED BY <1>3, <2>1 DEF CallOk, CurrentOk, AskOk, BindOk, MaySwap, AmendmentMayBind, OrphanMayBind,
        FinalMayBind, CutoverMayBind, Matches, Durable, Versions, Version
<1>13. \A d \in Callers : WriterOk(d)'
  BY <1>3, <1>4, <1>5, <1>6, <1>7 DEF WriterOk, At
<1>14. OneWriter'
  BY <1>1, <1>3, <1>4, <1>6, <1>7 DEF OneWriter
<1>15. ReportedIsTrue'
  BY <1>3, <1>4 DEF ReportedIsTrue, Versions, Version, BoundLocally, Bound
<1>16. DivergenceInv'
  <2> SUFFICES ASSUME scenario.documentEdits = {}
               PROVE  /\ DocumentOk'
                      /\ \A d \in Callers : VerifiedOk(call[d])' /\ PendingOk(call[d])'
    BY <1>3 DEF DivergenceInv
  <2>1. /\ DocumentOk /\ \A d \in Callers : VerifiedOk(call[d]) /\ PendingOk(call[d])
    BY DEF PlanInv, DivergenceInv
  <2>2. \A j \in Identities : Wrote(j) => Wrote(j)'
    <3>1. ~Unwritten(y)
      BY <1>6 DEF Unwritten
    <3>2. \A j \in Identities : Wrote(j) => entry'[j].state \notin {"ABSENT", "PREPARED", "FAILED_NO_EFFECT"}
      BY <1>3 DEF Wrote
    <3> QED BY <1>3, <1>4, <3>1, <3>2, WroteKept
  <2>3. Wrote(i)'
    <3>1. \A d \in Callers : call'[d].id = i => ~(call'[d].pc = "mutate")
                                              /\ ~(call'[d].pc = "settle" /\ call'[d].answer = "rejected")
      BY <1>1, <1>3, <1>4, <1>6, <1>7 DEF OneWriter
    <3> QED BY <1>3, <1>5, <3>1 DEF Wrote, Unwritten
  <2>4. NoRivals' <=> NoRivals
    BY <1>3 DEF NoRivals, Durable
  <2>5. record.status = "active" => i.kind # "final"
    <3>1. i.kind = "final" => entry[i].subject \in Versions /\ Version(entry[i].subject).status = "retired"
      BY <1>5 DEF EntryOk, Kinds
    <3>2. i.kind = "final" => record.status = "retired"
      BY <1>4, <3>1, LatestVersion DEF HistoryOk
    <3> QED BY <3>2
  <2>6. record.status = "active" /\ i.kind = "amendment" /\ NoRivals =>
           /\ record.kind = "local_governance"
           /\ entry[i].state # "CONFLICT"
           /\ \/ entry[i].subject = record.revision
              \/ i.candidate = entry[i].original
    <3>1. PendingOk(call[c])
      BY <2>1
    <3> QED BY <1>1, <1>3, <1>4, <1>5, <3>1, AmendmentAtHead DEF PendingOk
  <2>7. document = EmptyDoc => ~(record.status = "active" /\ record.kind = "local_governance")
    <3>1. \A w \in Identities : Owns(w) => document # EmptyDoc
      BY IdentityFacts DEF Owns
    <3>2. record.status = "active" => record.digest # EmptyDoc
      BY <1>4, LatestVersion DEF HistoryOk
    <3> QED BY <2>1, <3>1, <3>2 DEF DocumentOk
  <2>8. \/ document = i.candidate
        \/ document = EmptyDoc
        \/ i.kind = "amendment" /\ document = entry[i].original
        \/ i.kind = "final"
    BY <1>3, <1>5, WriteFinds
  <2>9. DocumentOk'
    <3> SUFFICES ASSUME record.status = "active", record.kind = "local_governance"
                 PROVE  document' = record.digest \/ \E w \in Identities : Owns(w)'
      BY <1>3 DEF DocumentOk
    <3>1. CASE document = i.candidate
      <4>1. \A w \in Identities : Owns(w) => Owns(w)'
        BY <1>3, <2>2, <2>4, <3>1 DEF Owns
      <4> QED BY <1>3, <2>1, <3>1, <4>1 DEF DocumentOk
    <3>2. CASE document # i.candidate
      <4>1. i.kind = "amendment" /\ document = entry[i].original
        BY <2>5, <2>7, <2>8, <3>2
      <4>2. NoRivals => entry[i].subject = record.revision /\ entry[i].state # "CONFLICT"
        BY <2>6, <3>2, <4>1
      <4>3. Owns(i)'
        BY <1>3, <2>3, <2>4, <4>2 DEF Owns
      <4> QED BY <1>5, <4>3
    <3> QED BY <3>1, <3>2
  <2>10. ASSUME NEW d \in Callers PROVE VerifiedOk(call[d])'
    <3>1. CASE d = c
      BY <1>6, <1>7, <3>1 DEF VerifiedOk, Verified
    <3>2. CASE d # c
      <4>1. call'[d] = call[d] /\ VerifiedOk(call[d])
        BY <1>7, <2>1, <3>2
      <4>2. SUFFICES ASSUME call[d].pc \in Verified, NoRivals, record.status # "retired",
                            record.revision = entry[call[d].id].subject
                     PROVE  i.candidate = call[d].id.candidate
        BY <1>3, <1>5, <2>3, <2>4, <4>1 DEF VerifiedOk
      <4>3. /\ call[d].id \in Identities /\ entry[call[d].id].state # "ABSENT"
            /\ call[d].id.candidate # EmptyDoc
        BY <1>4, <4>2, IdentityFacts DEF CallOk, BindOk, Verified, Binding
      <4>4. document = call[d].id.candidate
        BY <4>1, <4>2 DEF VerifiedOk
      <4>5. CASE i.kind = "amendment" /\ document = entry[i].original
        <5>1. record.status = "active"
          <6>1. entry[i].subject \in Versions
            BY <1>5, <4>5 DEF EntryOk, Kinds
          <6> QED BY <1>4, <4>2, <6>1, LatestVersion DEF TypeOK, Record, Statuses
        <5>2. entry[i].subject = record.revision => i = call[d].id
          BY <1>5, <4>2, <4>3 DEF NoRivals, Durable
        <5> QED BY <2>6, <4>2, <4>4, <4>5, <5>1, <5>2
      <4>6. CASE i.kind = "final"
        <5>1. entry[i].subject \in Versions /\ Version(entry[i].subject).status = "retired"
          BY <1>5, <4>6 DEF EntryOk, Kinds
        <5> QED BY <1>4, <4>2, <5>1, LatestVersion DEF HistoryOk
      <4> QED BY <2>8, <4>3, <4>4, <4>5, <4>6
    <3> QED BY <3>1, <3>2
  <2>11. ASSUME NEW d \in Callers PROVE PendingOk(call[d])'
    <3>1. PendingOk(call[d])
      BY <2>1
    <3> QED BY <1>3, <1>6, <1>7, <2>4, <3>1 DEF PendingOk
  <2> QED BY <2>9, <2>10, <2>11
<1> QED BY <1>8, <1>10, <1>11, <1>12, <1>13, <1>14, <1>15, <1>16 DEF PlanInv
-----------------------------------------------------------------------------
(* The steps that only move a call.                                        *)

(* A call that read the record just now holds a version.                   *)
LEMMA JustRead ==
    ASSUME TypeOK, HistoryOk, NEW x, x.current = record
    PROVE  CurrentOk(x)
  BY LatestVersion DEF CurrentOk

(* A call that returned is where CallOk allows it.                         *)
LEMMA IdleOk ==
    /\ Idle \in CallState /\ CallOk(Idle) /\ Idle.pc = "idle"
    /\ Idle.pc \notin {"mutate", "settle"} \cup Verified
<1>1. AbsentRecord \in Record /\ NoEvidence \in [bound : Nat, retired : Nat]
  BY DEF AbsentRecord, Record, Statuses, Authorities, NoEvidence
<1>2. Idle \in CallState
  BY <1>1 DEF Idle, CallState
<1>3. CallOk(Idle)
  BY DEF Idle, CallOk, CurrentOk, AskOk, BindOk, Asking, Working, Binding, Retiring
<1> QED BY <1>2, <1>3 DEF Idle, Verified

(* An operation opens with a request and the record as it is.              *)
LEMMA BeginMoves ==
    ASSUME PlanInv, NEW c \in Callers, NEW r \in scenario.requests, Begin(c, r)
    PROVE  PlanInv'
<1>1. PICK y : y = [Idle EXCEPT !.pc = CASE r.op = "cutover" -> "source"
                                       [] r.op = "close" -> "close_read"
                                       [] r.op = "amend" -> "amend"
                                       [] r.op \in {"orphan", "final"} -> "read"
                                       [] OTHER -> "lookup",
                              !.req = r, !.current = record]
  OBVIOUS
<1>2. /\ TypeOK /\ HistoryOk /\ record \in Record
  BY DEF PlanInv, TypeOK
<1>3. /\ MayStart(r, record) /\ call' = [call EXCEPT ![c] = y] /\ UNCHANGED Stores
  BY <1>1 DEF Begin
<1>4. r \in Request /\ r.op \in Ops /\ (KindOf(r.op) \in Kinds => Identity(r) \in Identities)
  BY <1>2, RequestFacts DEF TypeOK, Request
<1>5. r.op \in {"init", "amend", "close", "cutover", "orphan", "final"}
      /\ (r.op = "final" => FinalMayStart(r, record))
  BY <1>3 DEF MayStart
<1>6. r.op # "close" => Identity(r) \in Identities
  BY <1>4, <1>5 DEF KindOf, Kinds
<1>7. /\ y.req = r /\ y.current = record
      /\ y.pc \in {"source", "close_read", "amend", "read", "lookup"}
      /\ y.pc = "source" <=> r.op = "cutover"
      /\ y.pc = "amend" <=> r.op = "amend"
      /\ y.pc = "close_read" <=> r.op = "close"
      /\ y.pc = "read" <=> r.op \in {"orphan", "final"}
      /\ y.pc = "lookup" <=> r.op = "init"
  BY <1>1, <1>5 DEF Idle
<1>8. y \in CallState
  <2>1. y = [Idle EXCEPT !.pc = y.pc, !.req = r, !.current = record]
    BY <1>1, <1>7 DEF Idle
  <2>2. y.pc \in Asking
    BY <1>7 DEF Asking
  <2> QED BY <1>2, <1>4, <2>1, <2>2, IdleOk DEF CallState
<1>9. CallOk(y)
  <2>1. CurrentOk(y)
    BY <1>2, <1>7, JustRead
  <2>2. AskOk(y)
    BY <1>4, <1>5, <1>6, <1>7 DEF AskOk, Asking, Retiring
  <2>3. BindOk(y)
    BY <1>7 DEF BindOk, Working, Binding
  <2> QED BY <2>1, <2>2, <2>3 DEF CallOk
<1> QED BY <1>3, <1>7, <1>8, <1>9, CallMoves DEF Verified

(* A retirement opens on an active Plan.                                   *)
LEMMA RetireBeginMoves ==
    ASSUME PlanInv, NEW c \in Callers, NEW r \in scenario.requests, RetireBegin(c, r)
    PROVE  PlanInv'
<1>1. PICK y : y = [Idle EXCEPT !.pc = "retire_swap", !.req = r, !.current = record]
  OBVIOUS
<1>2. TypeOK /\ HistoryOk /\ record \in Record
  BY DEF PlanInv, TypeOK
<1>3. /\ r.op = "retire" /\ record.status = "active"
      /\ call' = [call EXCEPT ![c] = y] /\ UNCHANGED Stores
  BY <1>1 DEF RetireBegin
<1>4. r \in Request
  BY <1>2, RequestFacts DEF TypeOK
<1>5. y.req = r /\ y.current = record /\ y.pc = "retire_swap"
  BY <1>1 DEF Idle
<1>6. y \in CallState
  BY <1>1, <1>2, <1>4, IdleOk DEF CallState, Retiring
<1>7. CurrentOk(y)
  BY <1>2, <1>5, JustRead
<1>8. CallOk(y)
  BY <1>3, <1>4, <1>5, <1>7 DEF CallOk, AskOk, BindOk, Working, Binding, Asking, Retiring
<1> QED BY <1>3, <1>5, <1>6, <1>8, CallMoves DEF Verified

(* The steps of a call that asks, up to taking up an entry.                *)
LEMMA AskMoves ==
    ASSUME PlanInv, NEW c \in Callers,
           ReadSource(c) \/ CloseRead(c) \/ Amend(c) \/ ReadDocument(c) \/ LookupNew(c)
    PROVE  PlanInv'
<1> DEFINE x == call[c]
<1>1. /\ TypeOK /\ HistoryOk /\ record \in Record /\ document \in Digests
      /\ x \in CallState /\ CurrentOk(x) /\ AskOk(x)
  BY DEF PlanInv, TypeOK, CallOk
<1>2. ASSUME NEW y \in CallState, call' = [call EXCEPT ![c] = y], UNCHANGED Stores,
             y.pc \in Asking, CurrentOk(y), AskOk(y)
      PROVE  PlanInv'
  <2>1. BindOk(y)
    BY <1>2 DEF BindOk, Asking, Working, Binding
  <2>2. y.pc \notin {"mutate", "settle"} \cup Verified
    BY <1>2 DEF Asking, Verified
  <2> QED BY <1>2, <2>1, <2>2, CallMoves DEF CallOk
<1>3. CASE ReadSource(c)
  <2>1. PICK y : y = [x EXCEPT !.pc = "lookup"]
    OBVIOUS
  <2>2. x.pc = "source" /\ call' = [call EXCEPT ![c] = y] /\ UNCHANGED Stores
    BY <1>3, <2>1 DEF ReadSource, At, Goto
  <2>3. y \in CallState /\ y.pc = "lookup" /\ y.req = x.req /\ y.current = x.current
    BY <1>1, <2>1 DEF CallState, Asking
  <2>4. CurrentOk(y) /\ AskOk(y)
    BY <1>1, <2>2, <2>3 DEF CurrentOk, AskOk, Asking, Retiring
  <2> QED BY <1>2, <2>2, <2>3, <2>4 DEF Asking
<1>4. CASE CloseRead(c)
  <2>1. PICK y : y = [x EXCEPT !.pc = "amend",
                                !.req.revision = IF x.req.revision = 0 THEN x.current.revision
                                                  ELSE x.req.revision]
    OBVIOUS
  <2>2. x.pc = "close_read" /\ call' = [call EXCEPT ![c] = y] /\ UNCHANGED Stores
    BY <1>4, <2>1 DEF CloseRead, At
  <2>3. x.req \in Request /\ x.req.op = "close" /\ x.current \in Record
    BY <1>1, <2>2 DEF AskOk, CallState
  <2>4. /\ y.pc = "amend" /\ y.current = x.current /\ y.req \in Request /\ y.req.op = "close"
    <3>1. y.req = [x.req EXCEPT !.revision = IF x.req.revision = 0 THEN x.current.revision
                                                       ELSE x.req.revision]
      BY <1>1, <2>1 DEF CallState
    <3>2. x.current.revision \in Nat
      BY <2>3 DEF Record
    <3> QED BY <1>1, <2>1, <2>3, <3>1, <3>2 DEF CallState, Request
  <2>5. y \in CallState
    BY <1>1, <2>1, <2>4 DEF CallState, Asking
  <2>6. CurrentOk(y) /\ AskOk(y)
    BY <1>1, <2>4 DEF CurrentOk, AskOk, Asking, Retiring
  <2> QED BY <1>2, <2>2, <2>4, <2>5, <2>6 DEF Asking
<1>5. CASE Amend(c)
  <2>1. PICK y : y = [x EXCEPT !.pc = "lookup", !.current = record]
    OBVIOUS
  <2>2. /\ x.pc = "amend" /\ x.req.op = "amend"
        /\ call' = [call EXCEPT ![c] = y] /\ UNCHANGED Stores
    BY <1>5, <2>1 DEF Amend, At, GotoWith, CarriesDecision
  <2>3. y \in CallState /\ y.pc = "lookup" /\ y.req = x.req /\ y.current = record
    BY <1>1, <2>1 DEF CallState, Asking
  <2>4. CurrentOk(y) /\ AskOk(y)
    BY <1>1, <2>2, <2>3, JustRead DEF AskOk, Asking, Retiring
  <2> QED BY <1>2, <2>2, <2>3, <2>4 DEF Asking
<1>6. CASE ReadDocument(c)
  <2>1. PICK y : y = [x EXCEPT !.pc = IF x.req.op \in {"orphan", "final"} THEN "lookup" ELSE "create",
                                !.observed = document]
    OBVIOUS
  <2>2. /\ x.pc = "read" /\ AcceptsDocument(x.req, document)
        /\ call' = [call EXCEPT ![c] = y] /\ UNCHANGED Stores
    BY <1>6, <2>1 DEF ReadDocument, At
  <2>3. /\ y \in CallState /\ y.req = x.req /\ y.current = x.current /\ y.observed = document
        /\ y.pc = IF x.req.op \in {"orphan", "final"} THEN "lookup" ELSE "create"
    BY <1>1, <2>1 DEF CallState, Asking
  <2>4. /\ x.req.op = "amend" => document = x.req.expected
        /\ x.req.op = "orphan" => document = x.req.candidate
    BY <2>2 DEF AcceptsDocument
  <2>5. CurrentOk(y) /\ AskOk(y)
    BY <1>1, <2>2, <2>3, <2>4 DEF CurrentOk, AskOk, Asking, Retiring
  <2> QED BY <1>2, <2>2, <2>3, <2>5 DEF Asking
<1>7. CASE LookupNew(c)
  <2>1. PICK y : y = [x EXCEPT !.pc = IF x.req.op \in {"orphan", "final"} THEN "create" ELSE "read"]
    OBVIOUS
  <2>2. /\ x.pc = "lookup" /\ Matches(x.req.key) = {} /\ MayCreate(x.req, x.current)
        /\ call' = [call EXCEPT ![c] = y] /\ UNCHANGED Stores
    BY <1>7, <2>1 DEF LookupNew, At, Goto
  <2>3. /\ y \in CallState /\ y.req = x.req /\ y.current = x.current /\ y.observed = x.observed
        /\ y.pc = IF x.req.op \in {"orphan", "final"} THEN "create" ELSE "read"
    BY <1>1, <2>1 DEF CallState, Asking
  <2>4. /\ x.req.op = "init" => InitMayCreate(x.current)
        /\ x.req.op = "amend" => AmendMayCreate(x.req, x.current)
        /\ x.req.op = "cutover" => CutoverMayCreate(x.req, x.current)
    BY <2>2 DEF MayCreate
  <2>5. CurrentOk(y) /\ AskOk(y)
    BY <1>1, <2>2, <2>3, <2>4 DEF CurrentOk, AskOk, Asking, Retiring
  <2> QED BY <1>2, <2>2, <2>3, <2>5 DEF Asking
<1> QED BY <1>3, <1>4, <1>5, <1>6, <1>7

(* A call takes up an entry that it found under its key.                   *)
LEMMA HoldMoves ==
    ASSUME PlanInv, UNCHANGED Stores, NEW c \in Callers, NEW i \in Durable, NEW r \in Request,
           Hold(c, i, r), r.op # "retire", r.op = "final" => i.kind = "final"
    PROVE  PlanInv'
<1>1. PICK y : y = [call[c] EXCEPT
                      !.pc = IF i.kind = "orphan" /\ entry[i].state = "PREPARED"
                             THEN "claim" ELSE "resume",
                      !.req = r, !.id = i, !.state = entry[i].state,
                      !.evidence = entry[i].evidence, !.observed = NoDigest]
  OBVIOUS
<1>2. call' = [call EXCEPT ![c] = y]
  BY <1>1 DEF Hold
<1>3. /\ TypeOK /\ call[c] \in CallState /\ CurrentOk(call[c])
      /\ i \in Identities /\ entry[i] \in Entry /\ entry[i].state # "ABSENT"
  BY DEF PlanInv, TypeOK, CallOk, Durable
<1>4. /\ y.pc \in {"claim", "resume"} /\ y.req = r /\ y.id = i /\ y.current = call[c].current
      /\ y.state = entry[i].state
  BY <1>1, <1>3 DEF CallState
<1>5. y \in CallState
  <2>1. /\ entry[i].state \in JournalState \cup {"ABSENT"}
        /\ entry[i].evidence \in [bound : Nat, retired : Nat]
    BY <1>3 DEF Entry
  <2>2. y.pc \in Working
    BY <1>4 DEF Working
  <2>3. y = [call[c] EXCEPT !.pc = y.pc, !.req = r, !.id = i, !.state = entry[i].state,
                            !.evidence = entry[i].evidence, !.observed = NoDigest]
    BY <1>1, <1>3, <1>4 DEF CallState
  <2> QED BY <1>3, <2>1, <2>2, <2>3 DEF CallState
<1>6. CurrentOk(y)
  BY <1>3, <1>4 DEF CurrentOk
<1>7. AskOk(y)
  BY <1>4 DEF AskOk, Asking, Retiring
<1>8. BindOk(y)
  BY <1>3, <1>4 DEF BindOk, Binding
<1> QED BY <1>2, <1>4, <1>5, <1>6, <1>7, <1>8, CallMoves DEF CallOk, Verified

(* ... whether it was called with the request again or to recover it.      *)
LEMMA FoundMoves ==
    ASSUME PlanInv, NEW c \in Callers,
           LookupExisting(c) \/ \E r \in scenario.requests : Recover(c, r)
    PROVE  PlanInv'
<1>1. TypeOK /\ AskOk(call[c])
  BY DEF PlanInv, CallOk
<1>2. CASE LookupExisting(c)
  <2>1. PICK r : r = call[c].req
    OBVIOUS
  <2>2. /\ call[c].pc = "lookup" /\ Matches(r.key) = {Identity(r)} /\ Hold(c, Identity(r), r)
        /\ UNCHANGED Stores
    BY <1>2, <2>1 DEF LookupExisting, At
  <2>3. Identity(r) \in Durable
    BY <2>2 DEF Matches
  <2>4. r \in Request /\ r.op # "retire"
    BY <1>1, <2>1, <2>2 DEF AskOk, Retiring
  <2>5. r.op = "final" => Identity(r).kind = "final"
    BY DEF Identity, KindOf
  <2> QED BY <2>2, <2>3, <2>4, <2>5, HoldMoves
<1>3. ASSUME NEW r \in scenario.requests, Recover(c, r) PROVE PlanInv'
  <2>1. PICK i \in Identities : Matches(r.key) = {i} /\ Hold(c, i, r)
    BY <1>3 DEF Recover
  <2>2. i \in Durable
    BY <2>1 DEF Matches
  <2>3. r \in Request /\ r.op = "recover" /\ UNCHANGED Stores
    BY <1>1, <1>3, RequestFacts DEF TypeOK, Recover
  <2> QED BY <2>1, <2>2, <2>3, HoldMoves
<1> QED BY <1>2, <1>3

(* An orphan recovery is opened again from what its entry stored.          *)
LEMMA RecoverOrphanMoves ==
    ASSUME PlanInv, NEW c \in Callers, NEW r \in scenario.requests, RecoverOrphan(c, r)
    PROVE  PlanInv'
<1>1. PICK i \in Identities :
         /\ Matches(r.key) = {i} /\ i.kind = "orphan"
         /\ LET q == [op |-> "orphan", key |-> r.key, candidate |-> i.candidate,
                      expected |-> i.expected, revision |-> r.revision] IN
            /\ MayStart(q, record)
            /\ call' = [call EXCEPT ![c] = [Idle EXCEPT !.pc = "read", !.req = q,
                                                        !.current = record]]
  BY DEF RecoverOrphan
<1>2. PICK q : q = [op |-> "orphan", key |-> r.key, candidate |-> i.candidate,
                    expected |-> i.expected, revision |-> r.revision]
  OBVIOUS
<1>3. PICK y : y = [Idle EXCEPT !.pc = "read", !.req = q, !.current = record]
  OBVIOUS
<1>4. call' = [call EXCEPT ![c] = y] /\ UNCHANGED Stores
  BY <1>1, <1>2, <1>3 DEF RecoverOrphan
<1>5. TypeOK /\ HistoryOk /\ record \in Record /\ r \in Request
  BY RequestFacts DEF PlanInv, TypeOK
<1>6. q \in Request
  <2>1. PICK p \in Requests : i = Identity(p) /\ KindOf(p.op) \in Kinds
    BY DEF Identities
  <2>2. p \in Request
    BY <2>1, LifecycleAssumption DEF Requests, Scenario
  <2>3. i.candidate = p.candidate /\ i.expected = p.expected
    BY <2>1 DEF Identity
  <2> QED BY <1>2, <1>5, <2>2, <2>3 DEF Request, Ops
<1>7. /\ y.pc = "read" /\ y.req = q /\ y.current = record
      /\ q.op = "orphan" /\ Matches(q.key) # {}
  BY <1>1, <1>2, <1>3 DEF Idle
<1>8. y \in CallState
  BY <1>3, <1>5, <1>6, IdleOk DEF CallState, Asking
<1>9. CurrentOk(y)
  BY <1>5, <1>7, JustRead
<1>10. AskOk(y)
  BY <1>6, <1>7 DEF AskOk, Asking, Retiring
<1>11. BindOk(y)
  BY <1>7 DEF BindOk, Working, Binding
<1> QED BY <1>4, <1>7, <1>8, <1>9, <1>10, <1>11, CallMoves DEF CallOk, Verified

(* The steps of a call that holds an entry and writes nothing: a write     *)
(* without effect, a resumption of what is settled, and those that verify  *)
(* the document and find out what the record is bound to.                  *)
LEMMA WorkMoves ==
    ASSUME PlanInv, NEW c \in Callers,
           \/ \E answer \in {"rejected", "unknown"} : MutateWithoutEffect(c, answer)
           \/ ResumeOvertaken(c) \/ ResumeSettled(c)
    PROVE  PlanInv'
<1> DEFINE x == call[c]
<1>1. /\ TypeOK /\ x \in CallState /\ CallOk(x) /\ entry \in [Identities -> Entry]
      /\ x.pc \in Working => x.id \in Identities
  BY DEF PlanInv, TypeOK, CallOk, BindOk
<1>2. ASSUME NEW answer \in {"rejected", "unknown"}, MutateWithoutEffect(c, answer)
      PROVE  PlanInv'
  <2>1. PICK y : y = [x EXCEPT !.pc = "settle", !.answer = answer]
    OBVIOUS
  <2>2. x.pc = "mutate" /\ call' = [call EXCEPT ![c] = y] /\ UNCHANGED Stores
    BY <1>2, <2>1 DEF MutateWithoutEffect, At
  <2>3. /\ y \in CallState /\ y.pc = "settle" /\ y.id = x.id /\ y.req = x.req
        /\ y.current = x.current
    BY <1>1, <2>1 DEF CallState, Working
  <2>4. CallOk(y)
    BY <1>1, <2>2, <2>3 DEF CallOk, CurrentOk, AskOk, BindOk, Asking, Working, Binding, Retiring
  <2> QED BY <2>2, <2>3, <2>4, CallMoves DEF Verified
<1>3. ASSUME NEW y \in CallState, call' = [call EXCEPT ![c] = y], UNCHANGED Stores,
             x.pc = "resume", y.pc = "verify", y.id = x.id, y.req = x.req,
             y.current = x.current, entry[x.id].state \in Success
      PROVE  PlanInv'
  <2>1. CallOk(y)
    BY <1>1, <1>3 DEF CallOk, CurrentOk, AskOk, BindOk, Asking, Working, Binding, Retiring
  <2> QED BY <1>3, <2>1, CallMoves DEF Verified
<1>4. CASE ResumeOvertaken(c)
  <2>1. PICK y : y = [x EXCEPT !.pc = "verify", !.answer = "resumed",
                               !.evidence = entry[x.id].evidence]
    OBVIOUS
  <2>2. /\ x.pc = "resume" /\ entry[x.id].state \in Success
        /\ call' = [call EXCEPT ![c] = y] /\ UNCHANGED Stores
    BY <1>4, <2>1 DEF ResumeOvertaken, At
  <2>3. y \in CallState /\ y.pc = "verify" /\ y.id = x.id /\ y.req = x.req /\ y.current = x.current
    BY <1>1, <2>1, <2>2 DEF CallState, Working, Binding, Entry
  <2> QED BY <1>3, <2>2, <2>3
<1>5. CASE ResumeSettled(c)
  <2>1. PICK y : y = [x EXCEPT !.pc = "verify", !.answer = "resumed"]
    OBVIOUS
  <2>2. x.pc = "resume" /\ x.state \in Success /\ call' = [call EXCEPT ![c] = y] /\ UNCHANGED Stores
    BY <1>5, <2>1 DEF ResumeSettled, At
  <2>3. y \in CallState /\ y.pc = "verify" /\ y.id = x.id /\ y.req = x.req /\ y.current = x.current
    BY <1>1, <2>1, <2>2 DEF CallState, Working, Binding
  <2>4. entry[x.id].state \in Success
    BY <1>1, <2>2 DEF CallOk, BindOk
  <2> QED BY <1>3, <2>2, <2>3, <2>4
<1> QED BY <1>2, <1>4, <1>5

(* A call that goes on binding what it verified.                           *)
LEMMA BindOn ==
    ASSUME PlanInv, UNCHANGED Stores, NEW c \in Callers,
           NEW pc \in Binding, NEW cur \in {call[c].current, record},
           call' = [call EXCEPT ![c] = [call[c] EXCEPT !.pc = pc, !.current = cur]],
           call[c].pc \in Binding, pc # "close_mark",
           pc = "swap" => MaySwap(call[c].id, cur),
           pc \in {"readback", "mark"} =>
               /\ BoundLocally(cur, call[c].id.candidate)
               /\ call[c].id.kind = "final" => cur.status = "retired",
           pc \in Verified => document = call[c].id.candidate \/ call[c].pc \in Verified
    PROVE  PlanInv'
<1>1. PICK y : y = [call[c] EXCEPT !.pc = pc, !.current = cur]
  OBVIOUS
<1>2. /\ TypeOK /\ HistoryOk /\ record \in Record
      /\ call[c] \in CallState /\ CallOk(call[c])
  BY DEF PlanInv, TypeOK
<1>3. call[c].current \in Record
  BY <1>2 DEF CallState
<1>4. y \in CallState
  BY <1>1, <1>2, <1>3 DEF CallState
<1>5. y.pc = pc /\ y.id = call[c].id /\ y.req = call[c].req /\ y.current = cur
  BY <1>1, <1>2 DEF CallState
<1>6. CurrentOk(y)
  <2>1. CASE cur = record
    BY <1>2, <1>5, <2>1, JustRead
  <2>2. CASE cur = call[c].current
    BY <1>2, <1>5, <2>2 DEF CallOk, CurrentOk
  <2> QED BY <2>1, <2>2
<1>7. AskOk(y)
  BY <1>2, <1>5 DEF CallOk, AskOk, Asking, Binding, Retiring
<1>8. BindOk(y)
  <2>1. BindOk(call[c])
    BY <1>2 DEF CallOk
  <2> QED BY <1>5, <2>1 DEF BindOk, Binding
<1>9. y.pc \notin {"mutate", "settle"}
  BY <1>5 DEF Binding
<1>10. call' = [call EXCEPT ![c] = y]
  BY <1>1
<1> QED BY <1>4, <1>5, <1>6, <1>7, <1>8, <1>9, <1>10, CallMoves DEF CallOk

(* The steps from the verified document to the record that is bound.       *)
LEMMA BindMoves ==
    ASSUME PlanInv, NEW c \in Callers,
           \/ VerifyDocument(c) \/ SourceUnchanged(c) \/ ReadRecord(c)
           \/ SourceStillUnchanged(c) \/ SwapLost(c) \/ FoundBound(c) \/ ReadBack(c)
    PROVE  PlanInv'
<1> DEFINE x == call[c]
<1>1. /\ x \in CallState /\ BindOk(x)
  BY DEF PlanInv, TypeOK, CallOk
<1>2. ASSUME NEW pc, Goto(c, pc)
      PROVE  call' = [call EXCEPT ![c] = [x EXCEPT !.pc = pc, !.current = x.current]]
  <2>1. [x EXCEPT !.pc = pc] = [x EXCEPT !.pc = pc, !.current = x.current]
    BY <1>1 DEF CallState
  <2> QED BY <1>2, <2>1 DEF Goto
<1>3. ASSUME NEW pc, NEW cur, GotoWith(c, pc, cur)
      PROVE  call' = [call EXCEPT ![c] = [x EXCEPT !.pc = pc, !.current = cur]]
  BY <1>3 DEF GotoWith
<1>4. ASSUME NEW cur, AlreadyBound(x.id, cur)
      PROVE  /\ BoundLocally(cur, x.id.candidate)
             /\ x.id.kind = "final" => cur.status = "retired"
  BY <1>4 DEF AlreadyBound
<1>5. CASE VerifyDocument(c)
  <2>1. PICK pc \in {"source_again", "current"} : Goto(c, pc)
    BY <1>5 DEF VerifyDocument
  <2>2. x.pc = "verify" /\ document = x.id.candidate /\ UNCHANGED Stores
    BY <1>5 DEF VerifyDocument, At
  <2>3. call' = [call EXCEPT ![c] = [x EXCEPT !.pc = pc, !.current = x.current]]
    BY <1>2, <2>1
  <2> QED BY <2>2, <2>3, BindOn DEF Binding
<1>6. CASE SourceUnchanged(c)
  <2>1. x.pc = "source_again" /\ Goto(c, "current") /\ UNCHANGED Stores
    BY <1>6 DEF SourceUnchanged, At
  <2>2. call' = [call EXCEPT ![c] = [x EXCEPT !.pc = "current", !.current = x.current]]
    BY <1>2, <2>1
  <2> QED BY <2>1, <2>2, BindOn DEF Binding, Verified
<1>7. CASE ReadRecord(c)
  <2>1. x.pc = "current" /\ UNCHANGED Stores
    BY <1>7 DEF ReadRecord, At
  <2>2. PICK pc \in {"source_last", "mark", "swap"} :
           /\ GotoWith(c, pc, record)
           /\ pc = "mark" => AlreadyBound(x.id, record)
           /\ pc = "swap" => MaySwap(x.id, record)
    BY <1>7 DEF ReadRecord
  <2>3. call' = [call EXCEPT ![c] = [x EXCEPT !.pc = pc, !.current = record]]
    BY <1>3, <2>2
  <2>4. pc = "mark" => /\ BoundLocally(record, x.id.candidate)
                       /\ x.id.kind = "final" => record.status = "retired"
    BY <1>4, <2>2
  <2> QED BY <2>1, <2>2, <2>3, <2>4, BindOn DEF Binding, Verified
<1>8. CASE SourceStillUnchanged(c)
  <2>1. x.pc = "source_last" /\ UNCHANGED Stores
    BY <1>8 DEF SourceStillUnchanged, At
  <2>2. PICK pc \in {"mark", "swap"} :
           /\ Goto(c, pc)
           /\ pc = "mark" => AlreadyBound(x.id, x.current)
           /\ pc = "swap" => MaySwap(x.id, x.current)
    BY <1>8 DEF SourceStillUnchanged
  <2>3. call' = [call EXCEPT ![c] = [x EXCEPT !.pc = pc, !.current = x.current]]
    BY <1>2, <2>2
  <2>4. pc = "mark" => /\ BoundLocally(x.current, x.id.candidate)
                       /\ x.id.kind = "final" => x.current.status = "retired"
    BY <1>4, <2>2
  <2> QED BY <2>1, <2>2, <2>3, <2>4, BindOn DEF Binding, Verified
<1>9. CASE SwapLost(c)
  <2>1. x.pc = "swap" /\ Goto(c, "lost") /\ UNCHANGED Stores
    BY <1>9 DEF SwapLost, At
  <2>2. call' = [call EXCEPT ![c] = [x EXCEPT !.pc = "lost", !.current = x.current]]
    BY <1>2, <2>1
  <2> QED BY <2>1, <2>2, BindOn DEF Binding, Verified
<1>10. CASE FoundBound(c)
  <2>1. /\ x.pc = "lost" /\ BoundByAnother(x.id, record) /\ GotoWith(c, "mark", record)
        /\ UNCHANGED Stores
    BY <1>10 DEF FoundBound, At
  <2>2. call' = [call EXCEPT ![c] = [x EXCEPT !.pc = "mark", !.current = record]]
    BY <1>3, <2>1
  <2>3. /\ BoundLocally(record, x.id.candidate)
        /\ x.id.kind = "final" => record.status = "retired"
    BY <2>1 DEF BoundByAnother
  <2> QED BY <2>1, <2>2, <2>3, BindOn DEF Binding, Verified
<1>11. CASE ReadBack(c)
  <2>1. x.pc = "readback" /\ Goto(c, "mark") /\ UNCHANGED Stores
    BY <1>11 DEF ReadBack, At
  <2>2. call' = [call EXCEPT ![c] = [x EXCEPT !.pc = "mark", !.current = x.current]]
    BY <1>2, <2>1
  <2>3. /\ BoundLocally(x.current, x.id.candidate)
        /\ x.id.kind = "final" => x.current.status = "retired"
    BY <1>1, <2>1 DEF BindOk
  <2> QED BY <2>1, <2>2, <2>3, BindOn DEF Binding, Verified
<1> QED BY <1>5, <1>6, <1>7, <1>8, <1>9, <1>10, <1>11

(* A call that is cut short.                                               *)
LEMMA AbortMoves ==
    ASSUME PlanInv, NEW c \in Callers, Abort(c)
    PROVE  PlanInv'
<1>1. call' = [call EXCEPT ![c] = Idle] /\ UNCHANGED Stores
  BY DEF Abort
<1> QED BY <1>1, IdleOk, CallMoves
-----------------------------------------------------------------------------
(* The steps that write the journal.                                       *)

(* A verdict on the entry that a call works on: no success is taken back,  *)
(* and each verdict says what is true of the document.                     *)
LEMMA VerdictMoves ==
    ASSUME PlanInv, UNCHANGED <<scenario, document, source, record, timeline, reported>>,
           NEW c \in Callers, NEW s \in JournalState \ {"PREPARED"}, call[c].pc \in Working,
           NEW i, i = call[c].id, SetState(i, s), entry[i].state \notin Success,
           NEW y \in CallState, call' = [call EXCEPT ![c] = y],
           \/ y = Idle
           \/ /\ y.id = i /\ y.req = call[c].req /\ y.current = call[c].current
              /\ \/ y.pc = "mutate" /\ entry[i].state = "PREPARED" /\ s = "APPLYING"
                 \/ y.pc = "verify" /\ s \in Success,
           s = "FAILED_NO_EFFECT" =>
               \/ entry[i].state = "PREPARED"
               \/ call[c].pc = "settle" /\ call[c].answer = "rejected",
           s = "CONFLICT" => document \notin {entry[i].original, i.candidate},
           s \in Success => document = i.candidate
    PROVE  PlanInv'
<1>1. /\ TypeOK /\ entry \in [Identities -> Entry] /\ call[c] \in CallState /\ CallOk(call[c])
      /\ ReportedIsTrue /\ \A x \in reported : x.id \in Identities \cup {ByRetire}
  BY DEF PlanInv, TypeOK
<1>2. i \in Identities /\ entry[i].state # "ABSENT" /\ entry[i] \in Entry
  BY <1>1 DEF CallOk, BindOk
<1>3. PICK e : e = [entry[i] EXCEPT !.state = s]
  OBVIOUS
<1>4. /\ entry' = [entry EXCEPT ![i] = e]
      /\ e \in Entry /\ e.state = s /\ e.subject = entry[i].subject /\ e.original = entry[i].original
  BY <1>2, <1>3 DEF SetState, Entry
<1>5. s # "ABSENT"
  BY DEF JournalState, Terminal, RecoveryEligible
<1>6. EntriesGrow /\ VersionsGrow /\ entry' \in [Identities -> Entry]
  BY <1>1, <1>2, <1>4, <1>5, SameGrows DEF EntriesGrow
<1>7. CallOk(y)'
  <2>1. CASE y = Idle
    BY <1>6, <2>1, IdleOk, CallOkKept
  <2>2. CASE y # Idle
    <3>1. /\ y.id = i /\ y.req = call[c].req /\ y.current = call[c].current
          /\ y.pc \in {"mutate", "verify"} /\ (y.pc = "verify" => entry'[i].state \in Success)
      BY <1>1, <1>2, <1>4, <2>2
    <3>2. CurrentOk(y)'
      BY <1>1, <3>1 DEF CallOk, CurrentOk, Versions, Version
    <3>3. AskOk(y)'
      BY <1>1, <3>1 DEF CallOk, AskOk, Asking, Working, Retiring
    <3>4. BindOk(y)'
      <4>1. entry'[i].state # "ABSENT"
        BY <1>2, <1>6 DEF EntriesGrow
      <4>2. call[c].req.op = "final" => i.kind = "final"
        BY <1>1 DEF CallOk, BindOk
      <4> QED BY <1>2, <3>1, <4>1, <4>2 DEF BindOk, Binding
    <3> QED BY <3>2, <3>3, <3>4 DEF CallOk
  <2> QED BY <2>1, <2>2
<1>8. /\ y.pc # "settle" /\ y.pc \notin Verified
      /\ y.pc = "mutate" => y.id = i /\ entry[i].state = "PREPARED" /\ e.state = "APPLYING"
  BY <1>4, IdleOk DEF Verified
<1>9. ReportedIsTrue' /\ \A x \in reported' : x.id \in Identities \cup {ByRetire}
  BY <1>1 DEF ReportedIsTrue, Versions, Version, BoundLocally, Bound
<1> QED BY <1>2, <1>4, <1>5, <1>7, <1>8, <1>9, EntryMoves

(* What the three-way classification says of the document.                 *)
LEMMA Classified ==
    ASSUME NEW d \in Digests, NEW o \in Digests, NEW k,
           NEW s, s = Classify(d, o, k)
    PROVE  /\ s \in {"VERIFIED_RECOVERED", "RETRYABLE_NO_EFFECT", "CONFLICT"}
           /\ s = "VERIFIED_RECOVERED" => d = k
           /\ s = "CONFLICT" => d \notin {o, k}
<1>1. d # NoDigest /\ o # NoDigest
  BY LifecycleAssumption
<1>2. s = IF d = k THEN "VERIFIED_RECOVERED"
          ELSE IF d = o THEN "RETRYABLE_NO_EFFECT" ELSE "CONFLICT"
  BY <1>1 DEF Classify
<1> QED BY <1>2

(* Claiming, settling and recovering an entry.                             *)
LEMMA JournalMoves ==
    ASSUME PlanInv, NEW c \in Callers, Claim(c) \/ Settle(c) \/ ResumeUnsettled(c)
    PROVE  PlanInv'
<1> DEFINE x == call[c]
<1>1. PICK i : i = call[c].id
  OBVIOUS
<1>2. /\ TypeOK /\ x \in CallState /\ CallOk(x) /\ document \in Digests
      /\ x.pc \in Working => i \in Identities /\ entry[i].state # "ABSENT" /\ entry[i].original \in Digests
  BY <1>1 DEF PlanInv, TypeOK, CallOk, BindOk, EntryOk
<1>3. CASE Claim(c)
  <2>1. PICK y : y = [x EXCEPT !.pc = "mutate"]
    OBVIOUS
  <2>2. /\ x.pc = "claim" /\ entry[i].state = "PREPARED" /\ SetState(i, "APPLYING")
        /\ call' = [call EXCEPT ![c] = y]
        /\ UNCHANGED <<scenario, document, source, record, timeline, reported>>
    BY <1>1, <1>3, <2>1 DEF Claim, At, Goto
  <2>3. y \in CallState /\ y.pc = "mutate" /\ y.id = i /\ y.req = x.req /\ y.current = x.current
    BY <1>1, <1>2, <2>1 DEF CallState, Working
  <2>4. /\ "APPLYING" \in JournalState \ {"PREPARED"} /\ x.pc \in Working
        /\ entry[i].state \notin Success
    BY <2>2 DEF JournalState, RecoveryEligible, Working, Success
  <2>5. "APPLYING" \notin Success
    BY DEF Success
  <2> QED BY <1>1, <2>2, <2>3, <2>4, <2>5, VerdictMoves
<1>4. ASSUME NEW s \in JournalState \ {"PREPARED"}, SetState(i, s), x.pc \in {"settle", "resume"},
             entry[i].state \notin Success,
             UNCHANGED <<scenario, document, source, record, timeline, reported>>,
             NEW y \in CallState, call' = [call EXCEPT ![c] = y],
             \/ y = Idle
             \/ s \in Success /\ y.pc = "verify" /\ y.id = x.id /\ y.req = x.req /\ y.current = x.current,
             \/ s = "FAILED_NO_EFFECT" /\ (entry[i].state = "PREPARED" \/ (x.pc = "settle" /\ x.answer = "rejected"))
             \/ s = "OUTCOME_UNKNOWN"
             \/ s = Classify(document, entry[i].original, i.candidate)
      PROVE  PlanInv'
  <2>1. x.pc \in Working
    BY <1>4 DEF Working
  <2>2. s = Classify(document, entry[i].original, i.candidate) =>
           /\ s \in {"VERIFIED_RECOVERED", "RETRYABLE_NO_EFFECT", "CONFLICT"}
           /\ s = "VERIFIED_RECOVERED" => document = i.candidate
           /\ s = "CONFLICT" => document \notin {entry[i].original, i.candidate}
    BY <1>2, <2>1, Classified
  <2>3. /\ s = "CONFLICT" => document \notin {entry[i].original, i.candidate}
        /\ s \in Success => document = i.candidate
        /\ s = "FAILED_NO_EFFECT" =>
               entry[i].state = "PREPARED" \/ (x.pc = "settle" /\ x.answer = "rejected")
    BY <1>4, <2>2 DEF Success
  <2> QED BY <1>1, <1>4, <2>1, <2>3, VerdictMoves
<1>5. CASE Settle(c)
  <2>1. PICK s : s = CASE x.answer = "rejected" -> "FAILED_NO_EFFECT"
                       [] x.answer = "unknown" -> "OUTCOME_UNKNOWN"
                       [] OTHER -> Classify(document, entry[x.id].original, x.id.candidate)
    OBVIOUS
  <2>2. PICK y : y = IF s \in Success THEN [x EXCEPT !.pc = "verify"] ELSE Idle
    OBVIOUS
  <2>3. /\ x.pc = "settle" /\ entry[i].state = "APPLYING" /\ SetState(i, s)
        /\ call' = [call EXCEPT ![c] = y]
        /\ UNCHANGED <<scenario, document, source, record, timeline, reported>>
    <3>1. /\ x.pc = "settle" /\ entry[x.id].state = "APPLYING"
          /\ UNCHANGED <<scenario, document, source, record, timeline, reported>>
      BY <1>5 DEF Settle, At
    <3>2. SetState(x.id, s)
      BY <1>5, <2>1 DEF Settle
    <3>3. call' = [call EXCEPT ![c] = y]
      BY <1>5, <2>1, <2>2 DEF Settle
    <3> QED BY <1>1, <3>1, <3>2, <3>3
  <2>4. \/ s = "FAILED_NO_EFFECT" /\ x.answer = "rejected"
        \/ s = "OUTCOME_UNKNOWN"
        \/ s = Classify(document, entry[i].original, i.candidate)
    BY <1>1, <2>1
  <2>5. s \in JournalState \ {"PREPARED"}
    <3>1. s = Classify(document, entry[i].original, i.candidate) =>
             s \in {"VERIFIED_RECOVERED", "RETRYABLE_NO_EFFECT", "CONFLICT"}
      BY <1>2, <2>3, Classified DEF Working
    <3> QED BY <2>4, <3>1 DEF JournalState, Terminal, RecoveryEligible
  <2>6. /\ y \in CallState
        /\ \/ y = Idle
           \/ s \in Success /\ y.pc = "verify" /\ y.id = x.id /\ y.req = x.req /\ y.current = x.current
    BY <1>2, <2>2, IdleOk DEF CallState, Binding
  <2>7. entry[i].state \notin Success
    BY <2>3 DEF Success
  <2> QED BY <1>4, <2>3, <2>4, <2>5, <2>6, <2>7
<1>6. CASE ResumeUnsettled(c)
  <2>1. PICK s : s = IF entry[i].state = "PREPARED" THEN "FAILED_NO_EFFECT"
                     ELSE Classify(document, entry[i].original, i.candidate)
    OBVIOUS
  <2>2. PICK y : y = IF s \in Success /\ MayResume(c)
                     THEN [x EXCEPT !.pc = "verify", !.answer = "resumed"] ELSE Idle
    OBVIOUS
  <2>3. /\ x.pc = "resume" /\ entry[i].state \in RecoveryEligible /\ SetState(i, s)
        /\ call' = [call EXCEPT ![c] = y]
        /\ UNCHANGED <<scenario, document, source, record, timeline, reported>>
    BY <1>1, <1>6, <2>1, <2>2 DEF ResumeUnsettled, At
  <2>4. \/ s = "FAILED_NO_EFFECT" /\ entry[i].state = "PREPARED"
        \/ s = Classify(document, entry[i].original, i.candidate)
    BY <2>1
  <2>5. s \in JournalState \ {"PREPARED"}
    <3>1. s = Classify(document, entry[i].original, i.candidate) =>
             s \in {"VERIFIED_RECOVERED", "RETRYABLE_NO_EFFECT", "CONFLICT"}
      BY <1>2, <2>3, Classified DEF Working
    <3> QED BY <2>4, <3>1 DEF JournalState, Terminal, RecoveryEligible
  <2>6. /\ y \in CallState
        /\ \/ y = Idle
           \/ s \in Success /\ y.pc = "verify" /\ y.id = x.id /\ y.req = x.req /\ y.current = x.current
    BY <1>2, <2>2, IdleOk DEF CallState, Binding
  <2>7. entry[i].state \notin Success
    BY <2>3 DEF Success, RecoveryEligible
  <2> QED BY <1>4, <2>3, <2>4, <2>5, <2>6, <2>7
<1> QED BY <1>3, <1>5, <1>6

(* A call that marks its entry holds a version that is bound to it, so     *)
(* what it reports is true.                                                *)
LEMMA MarkedIsTrue ==
    ASSUME PlanInv, NEW c \in Callers, call[c].pc \in {"mark", "close_mark"},
           timeline' = timeline,
           \/ reported' = reported
           \/ reported' = reported \cup {[op |-> call[c].req.op, id |-> call[c].id,
                                          revision |-> call[c].current.revision]}
    PROVE  ReportedIsTrue' /\ \A x \in reported' : x.id \in Identities \cup {ByRetire}
<1>1. /\ ReportedIsTrue /\ \A x \in reported : x.id \in Identities \cup {ByRetire}
      /\ CurrentOk(call[c]) /\ AskOk(call[c]) /\ BindOk(call[c])
  BY DEF PlanInv, TypeOK, CallOk
<1>2. PICK v : v = [op |-> call[c].req.op, id |-> call[c].id, revision |-> call[c].current.revision]
  OBVIOUS
<1>3. /\ BoundLocally(call[c].current, call[c].id.candidate) /\ call[c].id \in Identities
      /\ call[c].id.kind = "final" => call[c].current.status = "retired"
      /\ call[c].req.op = "final" => call[c].id.kind = "final"
      /\ call[c].req.op # "retire"
  BY <1>1 DEF BindOk, AskOk, Binding, Retiring
<1>4. call[c].current.revision \in Versions /\ call[c].current = Version(call[c].current.revision)
  BY <1>1, <1>3 DEF CurrentOk, BoundLocally, Bound, AbsentRecord
<1>5. /\ v.revision \in Versions /\ BoundLocally(Version(v.revision), v.id.candidate)
      /\ v.op \in {"final", "retire"} => Version(v.revision).status = "retired"
      /\ v.id \in Identities
  BY <1>2, <1>3, <1>4
<1>6. reported' = reported \/ reported' = reported \cup {v}
  BY <1>2
<1>7. \A x \in reported' : x \in reported \/ x = v
  BY <1>6
<1>8. \A n : Version(n)' = Version(n)
  BY DEF Version
<1>9. Versions' = Versions
  BY DEF Versions
<1>10. ReportedIsTrue'
  BY <1>1, <1>5, <1>7, <1>8, <1>9 DEF ReportedIsTrue, BoundLocally, Bound
<1> QED BY <1>1, <1>5, <1>7, <1>10

(* A mark in the journal, or one that is there already.                    *)
LEMMA MarkMoves ==
    ASSUME PlanInv, UNCHANGED <<scenario, document, source, record, timeline>>,
           NEW c \in Callers, call[c].pc \in {"mark", "close_mark"},
           NEW i, i = call[c].id, NEW e \in [bound : Nat, retired : Nat],
           \/ entry' = [entry EXCEPT ![i] = [entry[i] EXCEPT !.evidence = e]]
           \/ entry' = entry,
           NEW y \in CallState, call' = [call EXCEPT ![c] = y],
           \/ y = Idle
           \/ /\ y.pc = "close_mark" /\ y.id = i /\ y.req = call[c].req
              /\ y.current = call[c].current,
           \/ reported' = reported
           \/ reported' = reported \cup {[op |-> call[c].req.op, id |-> i,
                                          revision |-> call[c].current.revision]}
    PROVE  PlanInv'
<1>1. /\ TypeOK /\ entry \in [Identities -> Entry] /\ call[c] \in CallState /\ CallOk(call[c])
  BY DEF PlanInv, TypeOK
<1>2. /\ i \in Identities /\ entry[i] \in Entry /\ entry[i].state # "ABSENT"
      /\ entry[i].state \in Success
  BY <1>1 DEF CallOk, BindOk, Binding
<1>3. PICK f : /\ entry' = [entry EXCEPT ![i] = f] /\ f \in Entry
               /\ f.state = entry[i].state /\ f.subject = entry[i].subject
               /\ f.original = entry[i].original
  <2>1. CASE entry' = entry
    <3>1. entry' = [entry EXCEPT ![i] = entry[i]]
      BY <1>1, <2>1
    <3> QED BY <1>2, <3>1
  <2>2. CASE entry' = [entry EXCEPT ![i] = [entry[i] EXCEPT !.evidence = e]]
    <3>1. PICK f : f = [entry[i] EXCEPT !.evidence = e]
      OBVIOUS
    <3>2. /\ f \in Entry /\ f.state = entry[i].state /\ f.subject = entry[i].subject
          /\ f.original = entry[i].original
      BY <1>2, <3>1 DEF Entry
    <3> QED BY <2>2, <3>1, <3>2
  <2> QED BY <2>1, <2>2
<1>4. EntriesGrow /\ VersionsGrow /\ entry' \in [Identities -> Entry]
  BY <1>1, <1>2, <1>3, SameGrows DEF EntriesGrow
<1>5. CallOk(y)
  <2>1. CASE y = Idle
    BY <2>1, IdleOk
  <2>2. CASE y # Idle
    <3>1. /\ y.pc = "close_mark" /\ y.id = i /\ y.req = call[c].req /\ y.current = call[c].current
      BY <2>2
    <3>2. CurrentOk(y)
      BY <1>1, <3>1 DEF CallOk, CurrentOk
    <3>3. AskOk(y)
      BY <1>1, <3>1 DEF CallOk, AskOk, Asking, Retiring
    <3>4. BindOk(y)
      BY <1>1, <3>1 DEF CallOk, BindOk, Binding
    <3> QED BY <3>2, <3>3, <3>4 DEF CallOk
  <2> QED BY <2>1, <2>2
<1>6. CallOk(y)'
  BY <1>4, <1>5, CallOkKept
<1>7. y.pc \notin {"mutate", "settle"} \cup Verified
  BY IdleOk DEF Verified
<1>8. ReportedIsTrue' /\ \A x \in reported' : x.id \in Identities \cup {ByRetire}
  BY MarkedIsTrue
<1>9. f.state # "PREPARED" /\ f.state # "FAILED_NO_EFFECT" /\ f.state # "CONFLICT"
  BY <1>2, <1>3 DEF Success
<1> QED BY <1>2, <1>3, <1>6, <1>7, <1>8, <1>9, EntryMoves

(* Marking the evidence of a binding and of a closure.                     *)
LEMMA EvidenceMoves ==
    ASSUME PlanInv, NEW c \in Callers, MarkEvidence(c) \/ MarkClosed(c)
    PROVE  PlanInv'
<1> DEFINE x == call[c]
<1>1. PICK i : i = call[c].id
  OBVIOUS
<1>2. /\ x \in CallState /\ x.current.revision \in Nat /\ entry \in [Identities -> Entry]
      /\ x.evidence \in [bound : Nat, retired : Nat] /\ CallOk(x)
  BY DEF PlanInv, TypeOK, CallState, Record
<1>3. CASE MarkEvidence(c)
  <2>1. PICK e : e = [x.evidence EXCEPT !.bound = x.current.revision]
    OBVIOUS
  <2>2. e \in [bound : Nat, retired : Nat]
    BY <1>2, <2>1
  <2>3. /\ x.pc = "mark" /\ UNCHANGED <<scenario, document, source, record, timeline>>
        /\ \/ entry' = [entry EXCEPT ![i] = [entry[i] EXCEPT !.evidence = e]]
           \/ entry' = entry
    BY <1>1, <1>3, <2>1 DEF MarkEvidence, At
  <2>4. i \in Identities
    BY <1>1, <1>2, <2>3 DEF CallOk, BindOk, Binding
  <2>5. CASE x.req.op # "final"
    <3>1. /\ call' = [call EXCEPT ![c] = Idle]
          /\ reported' = reported \cup {[op |-> x.req.op, id |-> i, revision |-> x.current.revision]}
      BY <1>1, <1>3, <2>5 DEF MarkEvidence, Report
    <3> QED BY <1>1, <2>2, <2>3, <3>1, IdleOk, MarkMoves
  <2>6. CASE x.req.op = "final"
    <3>1. PICK g : g = IF e = x.evidence THEN e ELSE entry'[i].evidence
      OBVIOUS
    <3>2. PICK y : y = [x EXCEPT !.pc = "close_mark", !.evidence = g]
      OBVIOUS
    <3>3. call' = [call EXCEPT ![c] = y] /\ reported' = reported
      BY <1>1, <1>3, <2>1, <2>6, <3>1, <3>2 DEF MarkEvidence
    <3>4. g \in [bound : Nat, retired : Nat]
      <4>1. entry'[i] = entry[i] \/ entry'[i] = [entry[i] EXCEPT !.evidence = e]
        BY <1>2, <2>3, <2>4
      <4>2. entry[i] \in Entry
        BY <1>2, <2>4
      <4> QED BY <2>2, <3>1, <4>1, <4>2 DEF Entry
    <3>5. /\ y \in CallState /\ y.pc = "close_mark" /\ y.id = i /\ y.req = x.req
          /\ y.current = x.current
      BY <1>1, <1>2, <3>2, <3>4 DEF CallState, Binding
    <3> QED BY <1>1, <2>2, <2>3, <3>3, <3>5, MarkMoves
  <2> QED BY <2>5, <2>6
<1>4. CASE MarkClosed(c)
  <2>1. PICK e : e = [x.evidence EXCEPT !.retired = x.current.revision]
    OBVIOUS
  <2>2. e \in [bound : Nat, retired : Nat]
    BY <1>2, <2>1
  <2>3. /\ x.pc = "close_mark" /\ UNCHANGED <<scenario, document, source, record, timeline>>
        /\ \/ entry' = [entry EXCEPT ![i] = [entry[i] EXCEPT !.evidence = e]]
           \/ entry' = entry
        /\ call' = [call EXCEPT ![c] = Idle]
        /\ reported' = reported \cup {[op |-> x.req.op, id |-> i, revision |-> x.current.revision]}
    BY <1>1, <1>4, <2>1 DEF MarkClosed, Report, At
  <2> QED BY <1>1, <2>2, <2>3, IdleOk, MarkMoves
<1> QED BY <1>3, <1>4
-----------------------------------------------------------------------------
(* The steps that write the record.                                        *)

(* What a version that was just stored is to the call that stored it.      *)
LEMMA StoredIsCurrent ==
    ASSUME TypeOK, NEW new, NEW by, Commit(new, by), new \in Record,
           by \in Identities \cup {ByRetire, ByRegistration},
           new.revision = Len(timeline) + 1, NEW x, x.current = new
    PROVE  CurrentOk(x)'
<1> DEFINE v == [record |-> new, by |-> by]
<1>1. /\ timeline \in Seq([record : Record, by : Identities \cup {ByRetire, ByRegistration}])
      /\ v \in [record : Record, by : Identities \cup {ByRetire, ByRegistration}]
      /\ timeline' = Append(timeline, v)
  BY DEF TypeOK, Commit
<1>2. /\ DOMAIN timeline' = 1..(Len(timeline) + 1)
      /\ timeline'[Len(timeline) + 1] = v
  BY <1>1, AppendGrows
<1>3. Len(timeline) \in Nat
  BY <1>1
<1>4. new.revision \in DOMAIN timeline' /\ timeline'[new.revision] = v
  BY <1>2, <1>3
<1>5. timeline'[new.revision].record = new
  BY <1>4
<1> QED BY <1>4, <1>5 DEF CurrentOk, Versions, Version

(* The swap replaces the very record that the call found its entry may be  *)
(* bound to.                                                               *)
LEMMA SwapMoves ==
    ASSUME PlanInv, NEW c \in Callers, SwapRecord(c)
    PROVE  PlanInv'
<1> DEFINE x == call[c]
<1>1. PICK i : i = call[c].id
  OBVIOUS
<1>2. /\ TypeOK /\ HistoryOk /\ record \in Record /\ x \in CallState /\ CallOk(x)
      /\ EntryOk(i) \/ i \notin Identities
  BY DEF PlanInv, TypeOK
<1>3. x.pc = "swap" /\ SwapMatches(x.current)
  BY DEF SwapRecord, At
<1>4. x.current = record
  BY <1>2, <1>3, HeldIsRecord DEF CallOk
<1>5. PICK new : new = [status |-> IF record.status = "absent" THEN "active" ELSE record.status,
                        kind |-> "local_governance", digest |-> i.candidate,
                        revision |-> record.revision + 1]
  OBVIOUS
<1>6. PICK y : y = [x EXCEPT !.pc = "readback", !.current = new]
  OBVIOUS
<1>7. /\ Commit(new, i) /\ call' = [call EXCEPT ![c] = y]
      /\ UNCHANGED <<scenario, document, source, entry, reported>>
  BY <1>1, <1>4, <1>5, <1>6 DEF SwapRecord, GotoWith
<1>8. /\ i \in Identities /\ entry[i].state # "ABSENT" /\ entry[i].state \in Success
      /\ MaySwap(i, record) /\ EntryOk(i)
      /\ i.kind \in Kinds /\ i.candidate \in Digests \ {EmptyDoc}
      /\ x.req.op = "final" => i.kind = "final"
  BY <1>1, <1>2, <1>3, <1>4, IdentityFacts DEF CallOk, BindOk, Binding
<1>9. /\ record.status \in Statuses /\ record.revision \in Nat
      /\ record.status = "absent" <=> timeline = <<>>
      /\ record.status = "absent" => record.revision = 0
      /\ Len(timeline) = record.revision
  BY <1>2, LatestVersion DEF Record
<1>10. /\ new \in Record /\ new.kind = "local_governance" /\ new.digest = i.candidate
       /\ new.revision = record.revision + 1 /\ new.status # "absent"
       /\ new.status = IF record.status = "absent" THEN "active" ELSE record.status
  BY <1>5, <1>8, <1>9 DEF Record, Statuses, Authorities
<1>11. /\ i.kind = "init" => record.status = "absent"
       /\ i.kind = "final" => record.status = "retired"
       /\ i.kind \notin {"init", "final"} => record.status = "active"
       /\ entry[i].subject = record.revision
       /\ i.kind # "init" => Bound(record, IF i.kind = "cutover" THEN "github_issue"
                                           ELSE "local_governance", i.expected)
  BY <1>8, <1>9 DEF MaySwap, InitMayBind, AmendmentMayBind, OrphanMayBind, FinalMayBind,
                    CutoverMayBind, EntryOk, BoundLocally, Kinds
<1>12. /\ y \in CallState /\ y.pc = "readback" /\ y.id = i /\ y.req = x.req /\ y.current = new
  BY <1>1, <1>2, <1>6, <1>10 DEF CallState, Binding
<1>13. CallOk(y)'
  <2>1. CurrentOk(y)'
    BY <1>2, <1>7, <1>8, <1>9, <1>10, <1>12, StoredIsCurrent
  <2>2. AskOk(y)'
    BY <1>2, <1>3, <1>12 DEF CallOk, AskOk, Asking, Retiring
  <2>3. BindOk(y)'
    BY <1>7, <1>8, <1>10, <1>11, <1>12 DEF BindOk, Binding, Working, BoundLocally, Bound
  <2> QED BY <2>1, <2>2, <2>3 DEF CallOk
<1>14. /\ record.status = "retired" => new.status = "retired" /\ i.kind = "final"
       /\ i.kind # "init" => timeline # <<>> /\ new.status = record.status
  BY <1>9, <1>10, <1>11 DEF Statuses
<1>15. scenario.documentEdits = {} /\ new.status = "active" =>
          \/ document = new.digest
          \/ ~NoRivals /\ \E w \in Identities : Wrote(w) /\ w.candidate = document
  <2>1. scenario.documentEdits = {} => VerifiedOk(x)
    BY DEF PlanInv, DivergenceInv
  <2>2. new.status = "active" => record.status # "retired"
    BY <1>14
  <2> QED BY <1>1, <1>3, <1>10, <1>11, <2>1, <2>2 DEF VerifiedOk, Verified
<1>16. /\ y.pc \notin {"mutate", "settle"} \cup Verified /\ i # ByRetire
  BY <1>8, <1>12, IdentityFacts DEF Verified
<1> QED BY <1>7, <1>8, <1>10, <1>11, <1>12, <1>13, <1>14, <1>15, <1>16, CommitMoves

(* A retirement replaces the active version that the call found.           *)
LEMMA RetireSwapMoves ==
    ASSUME PlanInv, NEW c \in Callers, RetireSwap(c)
    PROVE  PlanInv'
<1> DEFINE x == call[c]
<1>1. /\ TypeOK /\ HistoryOk /\ record \in Record /\ x \in CallState /\ CallOk(x)
  BY DEF PlanInv, TypeOK
<1>2. x.pc = "retire_swap" /\ SwapMatches(x.current)
  BY DEF RetireSwap, At
<1>3. x.current = record /\ record.status = "active"
  BY <1>1, <1>2, HeldIsRecord DEF CallOk, BindOk
<1>4. PICK new : new = [record EXCEPT !.status = "retired", !.revision = record.revision + 1]
  OBVIOUS
<1>5. PICK y : y = [x EXCEPT !.pc = "retire_readback", !.current = new]
  OBVIOUS
<1>6. /\ Commit(new, ByRetire) /\ call' = [call EXCEPT ![c] = y]
      /\ UNCHANGED <<scenario, document, source, entry, reported>>
  BY <1>4, <1>5 DEF RetireSwap, GotoWith
<1>7. /\ record.revision \in Versions /\ record = Version(record.revision)
      /\ record.revision \in Nat /\ Len(timeline) = record.revision
  BY <1>1, <1>3, LatestVersion
<1>8. record.kind # "none" /\ record.digest \in Digests \ {EmptyDoc}
  BY <1>1, <1>7 DEF HistoryOk
<1>9. /\ new \in Record /\ new.status = "retired" /\ new.revision = record.revision + 1
      /\ new.kind = record.kind /\ new.digest = record.digest
  <2>1. record.revision + 1 \in Nat
    BY <1>7
  <2>2. record.status \in Statuses
    BY <1>1 DEF Record
  <2> QED BY <1>1, <1>4, <2>1, <2>2 DEF Record, Statuses
<1>10. y \in CallState /\ y.pc = "retire_readback" /\ y.req = x.req /\ y.current = new
  BY <1>1, <1>5, <1>9 DEF CallState, Retiring
<1>11. CallOk(y)'
  <2>1. CurrentOk(y)'
    BY <1>1, <1>6, <1>7, <1>9, <1>10, StoredIsCurrent
  <2>2. AskOk(y)'
    BY <1>1, <1>2, <1>10 DEF CallOk, AskOk, Asking, Retiring
  <2>3. BindOk(y)'
    BY <1>9, <1>10 DEF BindOk, Binding, Working
  <2> QED BY <2>1, <2>2, <2>3 DEF CallOk
<1>12. y.pc \notin {"mutate", "settle"} \cup Verified
  BY <1>10 DEF Verified
<1> QED BY <1>3, <1>6, <1>8, <1>9, <1>10, <1>11, <1>12, IdentityFacts, CommitMoves
-----------------------------------------------------------------------------
(* The other steps.                                                        *)

(* A new entry is of a version that its operation may be applied to.       *)
LEMMA NewEntryOk ==
    ASSUME PlanInv, NEW x \in CallState, CallOk(x), x.pc = "create",
           NEW i, i = Identity(x.req),
           NEW e, e = [state |-> "PREPARED", original |-> x.observed,
                       subject |-> x.current.revision, evidence |-> NoEvidence]
    PROVE  /\ i \in Identities /\ e \in Entry /\ e.state = "PREPARED"
           /\ x.req.op = "final" => i.kind = "final"
           /\ e.original \in Digests /\ e.subject \in {0} \cup Versions
           /\ i.kind = "init" => e.subject = 0
           /\ i.kind \in Kinds \ {"init", "orphan"} => e.subject \in Versions
           /\ i.kind = "amendment" =>
                 /\ Version(e.subject).status = "active"
                 /\ BoundLocally(Version(e.subject), e.original)
           /\ i.kind = "final" => Version(e.subject).status = "retired"
           /\ i.kind = "orphan" => e.original = i.candidate
<1>1. /\ x.req \in Request /\ x.req.op \in Ops /\ x.req.op \notin {"none", "recover", "close", "retire"}
      /\ i \in Identities
      /\ x.req.op = "final" => FinalMayStart(x.req, x.current)
      /\ x.req.op = "init" => InitMayCreate(x.current)
      /\ x.req.op = "amend" => AmendMayCreate(x.req, x.current)
      /\ x.req.op = "cutover" => CutoverMayCreate(x.req, x.current)
      /\ x.observed \in Digests
      /\ x.req.op = "amend" => x.observed = x.req.expected
      /\ x.req.op = "orphan" => x.observed = x.req.candidate
  <2>1. AskOk(x)
    BY DEF CallOk
  <2>2. x.req \in Request /\ x.req.op \in Ops
    BY <2>1 DEF AskOk, Request
  <2>3. x.req.op \notin {"none", "recover", "close", "retire"} /\ i \in Identities
    BY <2>1 DEF AskOk, Asking, Retiring
  <2>4. /\ x.req.op = "final" => FinalMayStart(x.req, x.current)
        /\ x.req.op = "init" => InitMayCreate(x.current)
        /\ x.req.op = "amend" => AmendMayCreate(x.req, x.current)
        /\ x.req.op = "cutover" => CutoverMayCreate(x.req, x.current)
    BY <2>1 DEF AskOk, Asking
  <2>5. /\ x.observed \in Digests
        /\ x.req.op = "amend" => x.observed = x.req.expected
        /\ x.req.op = "orphan" => x.observed = x.req.candidate
    BY <2>1 DEF AskOk
  <2> QED BY <2>2, <2>3, <2>4, <2>5
<1>2. /\ i.kind = KindOf(x.req.op) /\ i.candidate = x.req.candidate
      /\ x.req.op \in {"init", "amend", "cutover", "orphan", "final"}
  BY <1>1 DEF Identity, Ops
<1>3. /\ i.kind = "init" <=> x.req.op = "init"
      /\ i.kind = "amendment" <=> x.req.op = "amend"
      /\ i.kind = "cutover" <=> x.req.op = "cutover"
      /\ i.kind = "orphan" <=> x.req.op = "orphan"
      /\ i.kind = "final" <=> x.req.op = "final"
  BY <1>2 DEF KindOf
<1>4. /\ e.state = "PREPARED" /\ e.original = x.observed /\ e.subject = x.current.revision
      /\ e.evidence = NoEvidence
  OBVIOUS
<1>5. e \in Entry
  <2>1. x.current.revision \in Nat
    BY DEF CallState, Record
  <2> QED BY <1>1, <2>1 DEF Entry, NoEvidence, JournalState, RecoveryEligible
<1>6. /\ x.current = AbsentRecord => x.current.status = "absent" /\ x.current.revision = 0
      /\ x.current # AbsentRecord =>
            /\ x.current.revision \in Versions /\ x.current = Version(x.current.revision)
            /\ x.current.status # "absent"
  BY DEF CallOk, CurrentOk, AbsentRecord, PlanInv, HistoryOk
<1>7. i.kind = "init" => e.subject = 0
  BY <1>1, <1>3, <1>4, <1>6 DEF InitMayCreate
<1>8. i.kind = "amendment" =>
          /\ e.subject \in Versions /\ Version(e.subject).status = "active"
          /\ BoundLocally(Version(e.subject), e.original)
  BY <1>1, <1>3, <1>4, <1>6 DEF AmendMayCreate
<1>9. i.kind = "final" => e.subject \in Versions /\ Version(e.subject).status = "retired"
  BY <1>1, <1>3, <1>4, <1>6 DEF FinalMayStart
<1>10. i.kind = "cutover" => e.subject \in Versions
  BY <1>1, <1>3, <1>4, <1>6 DEF CutoverMayCreate
<1>11. i.kind \in Kinds \ {"init", "orphan"} => e.subject \in Versions
  BY <1>8, <1>9, <1>10 DEF Kinds
<1> QED BY <1>1, <1>2, <1>3, <1>4, <1>5, <1>6, <1>7, <1>8, <1>9, <1>11

(* Creating it disturbs nothing else.                                      *)
LEMMA CreateMoves ==
    ASSUME PlanInv, NEW c \in Callers, CreateEntry(c)
    PROVE  PlanInv'
<1>1. PICK i : i = Identity(call[c].req)
  OBVIOUS
<1>2. PICK e : e = [state |-> "PREPARED", original |-> call[c].observed,
                    subject |-> call[c].current.revision, evidence |-> NoEvidence]
  OBVIOUS
<1>3. PICK y : y = [call[c] EXCEPT !.pc = "claim", !.id = i, !.observed = NoDigest]
  OBVIOUS
<1>4. /\ call[c].pc = "create" /\ entry[i].state = "ABSENT"
      /\ entry' = [entry EXCEPT ![i] = e] /\ call' = [call EXCEPT ![c] = y]
      /\ UNCHANGED <<scenario, document, source, record, timeline, reported>>
  BY <1>1, <1>2, <1>3 DEF CreateEntry, At
<1>5. /\ TypeOK /\ \A d \in Callers : CallOk(call[d]) /\ WriterOk(d)
      /\ call \in [Callers -> CallState] /\ entry \in [Identities -> Entry]
      /\ OneWriter /\ ReportedIsTrue /\ \A j \in Identities : EntryOk(j)
  BY DEF PlanInv, TypeOK
<1>6. /\ i \in Identities /\ e \in Entry /\ e.state = "PREPARED"
      /\ call[c].req.op = "final" => i.kind = "final"
      /\ e.original \in Digests /\ e.subject \in {0} \cup Versions
      /\ i.kind = "init" => e.subject = 0
      /\ i.kind \in Kinds \ {"init", "orphan"} => e.subject \in Versions
      /\ i.kind = "amendment" =>
            /\ Version(e.subject).status = "active"
            /\ BoundLocally(Version(e.subject), e.original)
      /\ i.kind = "final" => Version(e.subject).status = "retired"
      /\ i.kind = "orphan" => e.original = i.candidate
  BY <1>1, <1>2, <1>4, <1>5, NewEntryOk
<1>7. /\ entry' \in [Identities -> Entry] /\ entry'[i] = e
      /\ \A j \in Identities : entry[j].state # "ABSENT" => j # i /\ entry'[j] = entry[j]
      /\ \A j \in Identities : j # i => entry'[j] = entry[j]
  BY <1>4, <1>5, <1>6
<1>8. EntriesGrow /\ VersionsGrow
  BY <1>4, <1>7, SameGrows DEF EntriesGrow
<1>9. /\ y \in CallState /\ y.pc = "claim" /\ y.id = i /\ y.req = call[c].req
      /\ y.current = call[c].current
  BY <1>3, <1>5, <1>6 DEF CallState, Working
<1>10. \A d \in Callers : call'[d] = IF d = c THEN y ELSE call[d]
  BY <1>4, <1>5
<1>11. TypeOK'
  BY <1>4, <1>5, <1>7, <1>9 DEF TypeOK
<1>12. /\ HistoryOk' /\ SubjectInv' /\ BoundOnItsPrecondition'
       /\ BoundIsVerified' /\ RetiredForGood'
       /\ \A j \in Identities : entry[j].state # "ABSENT" => EntryOk(j)'
  BY <1>4, <1>8, HistoryKept
<1>13. ASSUME NEW j \in Identities PROVE EntryOk(j)'
  <2>1. CASE j = i
    <3>1. Versions' = Versions /\ \A n : Version(n)' = Version(n)
      BY <1>4 DEF Versions, Version
    <3> QED BY <1>6, <1>7, <2>1, <3>1 DEF EntryOk, BoundLocally, Bound
  <2>2. CASE j # i
    BY <1>7, <1>12, <2>2 DEF EntryOk
  <2> QED BY <2>1, <2>2
<1>14. CallOk(y)'
  <2>1. CurrentOk(y)'
    BY <1>4, <1>5, <1>9 DEF CallOk, CurrentOk, Versions, Version
  <2>2. AskOk(y)'
    BY <1>4, <1>5, <1>9 DEF CallOk, AskOk, Asking, Retiring
  <2>3. BindOk(y)'
    BY <1>6, <1>7, <1>9 DEF BindOk, Binding
  <2> QED BY <2>1, <2>2, <2>3 DEF CallOk
<1>15. ASSUME NEW d \in Callers PROVE CallOk(call[d])'
  <2>1. PICK x : x = call'[d] /\ CallOk(x)'
    <3>1. CASE d = c
      BY <1>10, <1>14, <3>1
    <3>2. CASE d # c
      <4>1. PICK z : z = call[d] /\ CallOk(z)
        BY <1>5
      <4>2. CallOk(z)'
        BY <1>7, <1>8, <4>1, CallOkKept
      <4> QED BY <1>10, <3>2, <4>1, <4>2
    <3> QED BY <3>1, <3>2
  <2> QED BY <2>1 DEF CallOk, CurrentOk, AskOk, BindOk, MaySwap, AmendmentMayBind, OrphanMayBind,
        FinalMayBind, CutoverMayBind, Matches, Durable, Versions, Version
<1>16. \A d \in Callers : call[d].pc \in {"mutate", "settle"} =>
           call[d].id \in Identities /\ entry[call[d].id].state # "ABSENT"
  BY <1>5 DEF CallOk, BindOk, Working
<1>17. ASSUME NEW d \in Callers PROVE WriterOk(d)'
  <2>1. CASE d = c
    BY <1>9, <1>10, <2>1 DEF WriterOk, At
  <2>2. CASE d # c
    BY <1>5, <1>7, <1>10, <1>16, <2>2 DEF WriterOk, At
  <2> QED BY <2>1, <2>2
<1>18. OneWriter'
  BY <1>5, <1>9, <1>10 DEF OneWriter
<1>19. ReportedIsTrue'
  BY <1>4, <1>5 DEF ReportedIsTrue, Versions, Version, BoundLocally, Bound
<1>20. DivergenceInv'
  <2>1. \A j \in Identities : Wrote(j) => entry[j].state # "ABSENT"
    BY DEF Wrote
  <2>2. \A j \in Identities : Wrote(j) => Wrote(j)'
    <3>1. \A j \in Identities : Wrote(j) => entry'[j].state \notin {"ABSENT", "PREPARED", "FAILED_NO_EFFECT"}
      BY <1>7 DEF Wrote
    <3>2. ~Unwritten(y)
      BY <1>9 DEF Unwritten
    <3> QED BY <1>4, <1>5, <3>1, <3>2, WroteKept
  <2>3. NoRivals' => NoRivals
    BY <1>7 DEF NoRivals, Durable
  <2>4. y.pc # "mutate" /\ y.pc \notin Verified
    BY <1>9 DEF Verified
  <2>5. \A j \in Identities :
           /\ Wrote(j) /\ j.candidate = document /\ entry'[j].state = "CONFLICT" =>
                 entry[j].state = "CONFLICT"
           /\ \A d \in Callers \ {c} :
                 /\ call[d].pc = "mutate" /\ call[d].id = j /\ j.kind = "amendment"
                 /\ NoRivals /\ record.status = "active"
                 => \/ entry'[j].state = entry[j].state
                    \/ /\ entry'[j].state # "CONFLICT"
                       /\ entry'[j].state \in Success => j.candidate = entry[j].original
    BY <1>7, <1>16, <2>1
  <2> QED BY <1>4, <1>8, <2>2, <2>3, <2>4, <2>5, DivergenceKept
<1> QED BY <1>11, <1>12, <1>13, <1>15, <1>17, <1>18, <1>19, <1>20 DEF PlanInv

(* A success that is a fact of the record is reported, and nothing else of  *)
(* the stores changes.                                                     *)
LEMMA ReportMoves ==
    ASSUME PlanInv, NEW c \in Callers, NEW v,
           v.id \in Identities \cup {ByRetire}, v.revision \in Versions,
           v.id.kind \in Kinds => BoundLocally(Version(v.revision), v.id.candidate),
           v.op \in {"final", "retire"} => Version(v.revision).status = "retired",
           call' = call \/ call' = [call EXCEPT ![c] = Idle],
           reported' = reported \cup {v},
           UNCHANGED <<scenario, document, source, record, entry, timeline>>
    PROVE  PlanInv'
<1>1. /\ TypeOK /\ HistoryOk /\ \A d \in Callers : CallOk(call[d]) /\ WriterOk(d)
      /\ call \in [Callers -> CallState] /\ entry \in [Identities -> Entry]
      /\ OneWriter /\ ReportedIsTrue /\ \A j \in Identities : EntryOk(j)
  BY DEF PlanInv, TypeOK
<1>2. \A d \in Callers : call'[d] = call[d] \/ call'[d] = Idle
  BY <1>1
<1>3. EntriesGrow /\ VersionsGrow
  BY SameGrows DEF EntriesGrow
<1>4. TypeOK'
  <2>1. call' \in [Callers -> CallState]
    BY <1>1, IdleOk
  <2> QED BY <1>1, <2>1 DEF TypeOK
<1>5. /\ HistoryOk' /\ SubjectInv' /\ BoundOnItsPrecondition'
      /\ BoundIsVerified' /\ RetiredForGood'
  BY <1>3, HistoryKept
<1>6. \A j \in Identities : EntryOk(j)'
  BY <1>1 DEF EntryOk, Versions, Version, BoundLocally, Bound
<1>7. ASSUME NEW d \in Callers PROVE CallOk(call[d])'
  <2>1. PICK x : x = call'[d] /\ CallOk(x)
    BY <1>1, <1>2, IdleOk
  <2> QED BY <2>1 DEF CallOk, CurrentOk, AskOk, BindOk, MaySwap, AmendmentMayBind, OrphanMayBind,
        FinalMayBind, CutoverMayBind, Matches, Durable, Versions, Version
<1>8. ASSUME NEW d \in Callers PROVE WriterOk(d)'
  BY <1>1, <1>2, IdleOk DEF WriterOk, At
<1>9. OneWriter'
  BY <1>1, <1>2, IdleOk DEF OneWriter
<1>10. ReportedIsTrue'
  <2>1. Versions' = Versions /\ \A n : Version(n)' = Version(n)
    BY DEF Versions, Version
  <2>2. \A x \in reported' : x \in reported \/ x = v
    OBVIOUS
  <2> QED BY <1>1, <2>1, <2>2 DEF ReportedIsTrue, BoundLocally, Bound
<1>11. DivergenceInv'
  <2>1. \A j \in Identities : Wrote(j) => Wrote(j)'
    <3>1. \A j \in Identities : Wrote(j) => entry'[j].state \notin {"ABSENT", "PREPARED", "FAILED_NO_EFFECT"}
      BY DEF Wrote
    <3>2. ~Unwritten(Idle)
      BY DEF Unwritten, Idle
    <3>3. CASE call' = call
      BY <3>1, <3>3 DEF Wrote
    <3>4. CASE call' = [call EXCEPT ![c] = Idle]
      BY <1>1, <3>1, <3>2, <3>4, WroteKept
    <3> QED BY <3>3, <3>4
  <2>2. NoRivals' => NoRivals
    BY DEF NoRivals, Durable
  <2>3. Idle.pc # "mutate" /\ Idle.pc \notin Verified
    BY IdleOk
  <2>4. CASE call' = call
    <3>1. NoRivals' = NoRivals /\ \A j \in Identities : Wrote(j)' = Wrote(j)
      BY <2>4 DEF NoRivals, Durable, Wrote
    <3>2. DocumentOk' = DocumentOk
      BY <3>1 DEF DocumentOk, Owns
    <3>3. \A d \in Callers : VerifiedOk(call[d])' = VerifiedOk(call[d]) /\ PendingOk(call[d])' = PendingOk(call[d])
      BY <2>4, <3>1 DEF VerifiedOk, PendingOk
    <3> QED BY <3>2, <3>3 DEF DivergenceInv, PlanInv
  <2>5. CASE call' = [call EXCEPT ![c] = Idle]
    BY <1>3, <2>1, <2>2, <2>3, <2>5, DivergenceKept
  <2> QED BY <2>4, <2>5
<1> QED BY <1>4, <1>5, <1>6, <1>7, <1>8, <1>9, <1>10, <1>11 DEF PlanInv

(* A retirement that finds what it stored, or a retired Plan, reports it.  *)
LEMMA RetiredMoves ==
    ASSUME PlanInv, NEW c \in Callers,
           RetireReadBack(c) \/ \E r \in scenario.requests : RetireAgain(c, r)
    PROVE  PlanInv'
<1>1. PICK v : v = [op |-> "retire", id |-> ByRetire, revision |-> record.revision]
  OBVIOUS
<1>2. TypeOK /\ HistoryOk /\ CallOk(call[c])
  BY DEF PlanInv
<1>3. record.status = "retired"
  BY <1>2 DEF CallOk, BindOk, RetireReadBack, RetireAgain, At
<1>4. record.revision \in Versions /\ Version(record.revision) = record
  BY <1>2, <1>3, LatestVersion
<1>5. reported' = reported \cup {v}
  <2>1. CASE RetireReadBack(c)
    <3>1. call[c].req.op = "retire"
      BY <1>2, <2>1 DEF CallOk, AskOk, Retiring, RetireReadBack, At
    <3> QED BY <1>1, <2>1, <3>1 DEF RetireReadBack, Report
  <2>2. CASE \E r \in scenario.requests : RetireAgain(c, r)
    BY <1>1, <2>2 DEF RetireAgain
  <2> QED BY <2>1, <2>2
<1>6. /\ call' = call \/ call' = [call EXCEPT ![c] = Idle]
      /\ UNCHANGED <<scenario, document, source, record, entry, timeline>>
  BY DEF RetireReadBack, RetireAgain, Report
<1>7. /\ v.id = ByRetire /\ v.id.kind \notin Kinds
      /\ v.revision \in Versions /\ Version(v.revision).status = "retired"
  BY <1>1, <1>3, <1>4, IdentityFacts
<1> QED BY <1>5, <1>6, <1>7, ReportMoves

(* An orphan recovery that read a record which names its body reports it.  *)
LEMMA LookupBoundMoves ==
    ASSUME PlanInv, NEW c \in Callers, LookupBound(c)
    PROVE  PlanInv'
<1>1. PICK x : x = call[c]
  OBVIOUS
<1>2. PICK v : v = [op |-> x.req.op, id |-> Identity(x.req), revision |-> x.current.revision]
  OBVIOUS
<1>3. /\ x.pc = "lookup" /\ x.req.op = "orphan" /\ Matches(x.req.key) = {}
      /\ BoundLocally(x.current, x.req.candidate)
      /\ call' = [call EXCEPT ![c] = Idle] /\ reported' = reported \cup {v}
      /\ UNCHANGED <<scenario, document, source, record, entry, timeline>>
  BY <1>1, <1>2 DEF LookupBound, Report, At
<1>4. CurrentOk(x) /\ AskOk(x)
  BY <1>1 DEF PlanInv, CallOk
<1>5. Identity(x.req) \in Identities
  BY <1>3, <1>4 DEF AskOk, Asking
<1>6. x.current.revision \in Versions /\ x.current = Version(x.current.revision)
  BY <1>3, <1>4 DEF CurrentOk, BoundLocally, Bound, AbsentRecord
<1>7. Identity(x.req).candidate = x.req.candidate
  BY DEF Identity
<1>8. /\ v.id \in Identities \cup {ByRetire} /\ v.revision \in Versions
      /\ v.id.kind \in Kinds => BoundLocally(Version(v.revision), v.id.candidate)
      /\ v.op \notin {"final", "retire"}
  BY <1>2, <1>3, <1>5, <1>6, <1>7
<1> QED BY <1>3, <1>8, ReportMoves

(* Another writer of the document, or of the source.                       *)
LEMMA EditMoves ==
    ASSUME PlanInv,
           \/ \E d \in scenario.documentEdits : EditDocument(d)
           \/ \E d \in scenario.sourceEdits : EditSource(d)
    PROVE  PlanInv'
<1>1. /\ UNCHANGED <<scenario, record, entry, call, timeline, reported>>
      /\ document' = document \/ scenario.documentEdits # {}
      /\ document' = document \/ document' \in scenario.documentEdits
      /\ source' = source \/ source' \in scenario.sourceEdits
  BY DEF EditDocument, EditSource
<1>2. /\ TypeOK /\ \A d \in Callers : CallOk(call[d]) /\ WriterOk(d)
      /\ call \in [Callers -> CallState] /\ entry \in [Identities -> Entry]
      /\ OneWriter /\ ReportedIsTrue /\ \A j \in Identities : EntryOk(j)
  BY DEF PlanInv, TypeOK
<1>3. scenario.documentEdits \subseteq Digests /\ scenario.sourceEdits \subseteq Digests
  BY <1>2, LifecycleAssumption DEF TypeOK, Scenario
<1>4. TypeOK'
  BY <1>1, <1>2, <1>3 DEF TypeOK
<1>5. EntriesGrow
  BY <1>1 DEF EntriesGrow
<1>6. /\ HistoryOk' /\ SubjectInv' /\ BoundOnItsPrecondition'
      /\ BoundIsVerified' /\ RetiredForGood'
  BY <1>1, <1>5, HistoryKept
<1>7. \A j \in Identities : EntryOk(j)'
  BY <1>1, <1>2 DEF EntryOk, Versions, Version, BoundLocally, Bound
<1>8. ASSUME NEW d \in Callers PROVE CallOk(call[d])'
  BY <1>1, <1>2 DEF CallOk, CurrentOk, AskOk, BindOk, MaySwap, AmendmentMayBind, OrphanMayBind,
        FinalMayBind, CutoverMayBind, Matches, Durable, Versions, Version
<1>9. \A d \in Callers : WriterOk(d)'
  BY <1>1, <1>2 DEF WriterOk, At
<1>10. OneWriter' /\ ReportedIsTrue'
  BY <1>1, <1>2 DEF OneWriter, ReportedIsTrue, Versions, Version, BoundLocally, Bound
<1>11. DivergenceInv'
  <2>1. CASE scenario.documentEdits # {}
    BY <1>1, <2>1 DEF DivergenceInv
  <2>2. CASE scenario.documentEdits = {}
    <3>1. document' = document /\ DocumentOk /\ \A d \in Callers : VerifiedOk(call[d]) /\ PendingOk(call[d])
      BY <1>1, <2>2 DEF PlanInv, DivergenceInv
    <3>2. /\ NoRivals' = NoRivals /\ \A j \in Identities : Wrote(j)' = Wrote(j)
      BY <1>1 DEF NoRivals, Durable, Wrote
    <3>3. DocumentOk'
      BY <1>1, <3>1, <3>2 DEF DocumentOk, Owns
    <3>4. ASSUME NEW d \in Callers PROVE VerifiedOk(call[d])' /\ PendingOk(call[d])'
      BY <1>1, <3>1, <3>2 DEF VerifiedOk, PendingOk
    <3> QED BY <3>3, <3>4 DEF DivergenceInv
  <2> QED BY <2>1, <2>2
<1> QED BY <1>4, <1>6, <1>7, <1>8, <1>9, <1>10, <1>11 DEF PlanInv
-----------------------------------------------------------------------------
(* The invariant.                                                          *)

(* A Plan that is not registered or at its first version, an empty journal *)
(* and no call.                                                            *)
LEMMA PlanInit ==
    ASSUME Init
    PROVE  PlanInv
<1>1. /\ scenario \in Scenarios /\ record = scenario.start
      /\ document = IF record.kind = "local_governance" THEN record.digest ELSE EmptyDoc
      /\ source = record.digest /\ entry = [i \in Identities |-> AbsentEntry]
      /\ call = [c \in Callers |-> Idle] /\ reported = {}
      /\ timeline = IF record.status = "absent" THEN <<>>
                    ELSE <<[record |-> record, by |-> ByRegistration]>>
  BY DEF Init
<1>2. /\ record \in Record
      /\ \/ record = AbsentRecord
         \/ /\ record.status # "absent" /\ record.kind # "none"
            /\ record.digest \in Digests \ {EmptyDoc} /\ record.revision = 1
  BY <1>1, LifecycleAssumption, PlanAssumption DEF Scenario
<1>3. PICK v : v = [record |-> record, by |-> ByRegistration]
  OBVIOUS
<1>4. /\ v.record = record /\ v.by = ByRegistration
      /\ v \in [record : Record, by : Identities \cup {ByRetire, ByRegistration}]
  BY <1>2, <1>3
<1>5. \/ timeline = <<>> /\ record = AbsentRecord
      \/ timeline = <<v>> /\ record.status # "absent" /\ record.revision = 1
         /\ record.kind # "none" /\ record.digest \in Digests \ {EmptyDoc}
  BY <1>1, <1>2, <1>3 DEF AbsentRecord
<1>6. AbsentEntry \in Entry /\ AbsentEntry.state = "ABSENT"
  BY DEF AbsentEntry, Entry, NoEvidence
<1>7. TypeOK
  <2>1. document \in Digests /\ source \in Digests \cup {NoDigest}
    BY <1>1, <1>2, LifecycleAssumption DEF AbsentRecord
  <2>2. entry \in [Identities -> Entry] /\ call \in [Callers -> CallState]
    BY <1>1, <1>6, IdleOk
  <2>3. timeline \in Seq([record : Record, by : Identities \cup {ByRetire, ByRegistration}])
    <3>1. PICK V : V = [record : Record, by : Identities \cup {ByRetire, ByRegistration}]
      OBVIOUS
    <3>2. v \in V
      BY <1>4, <3>1
    <3>3. <<>> \in Seq(V) /\ <<v>> \in Seq(V)
      BY <3>2
    <3> QED BY <1>5, <3>1, <3>3
  <2>4. record = IF timeline = <<>> THEN AbsentRecord ELSE timeline[Len(timeline)].record
    BY <1>4, <1>5
  <2> QED BY <1>1, <1>2, <2>1, <2>2, <2>3, <2>4 DEF TypeOK
<1>8. /\ \A n \in Versions : n = 1 /\ Version(n) = record /\ StoredBy(n) = ByRegistration
      /\ \A n \in Versions : record.revision = 1 /\ record.status # "absent"
                             /\ record.kind # "none" /\ record.digest \in Digests \ {EmptyDoc}
  <2>1. CASE timeline = <<>>
    BY <2>1 DEF Versions
  <2>2. CASE timeline = <<v>> /\ record.status # "absent" /\ record.revision = 1
             /\ record.kind # "none" /\ record.digest \in Digests \ {EmptyDoc}
    BY <1>4, <2>2 DEF Versions, Version, StoredBy
  <2> QED BY <1>5, <2>1, <2>2
<1>9. HistoryOk
  BY <1>8, IdentityFacts DEF HistoryOk
<1>10. \A i \in Identities : EntryOk(i) /\ entry[i].state = "ABSENT"
  BY <1>1, <1>6 DEF EntryOk
<1>11. \A c \in Callers : call[c] = Idle
  BY <1>1
<1>12. \A c \in Callers : CallOk(call[c]) /\ WriterOk(c)
  BY <1>11, IdleOk DEF WriterOk, At
<1>13. OneWriter
  BY <1>11, IdleOk DEF OneWriter
<1>14. SubjectInv /\ BoundOnItsPrecondition /\ BoundIsVerified /\ RetiredForGood /\ ReportedIsTrue
  BY <1>1, <1>8, IdentityFacts DEF SubjectInv, BoundOnItsPrecondition, BoundIsVerified,
                                   RetiredForGood, ReportedIsTrue
<1>15. DivergenceInv
  <2>1. DocumentOk
    BY <1>1 DEF DocumentOk
  <2>2. \A c \in Callers : VerifiedOk(call[c]) /\ PendingOk(call[c])
    BY <1>11, IdleOk DEF VerifiedOk, PendingOk
  <2> QED BY <2>1, <2>2 DEF DivergenceInv
<1> QED BY <1>7, <1>9, <1>10, <1>12, <1>13, <1>14, <1>15 DEF PlanInv

(* A step that changes nothing keeps everything.                           *)
LEMMA PlanStutters ==
    ASSUME PlanInv, UNCHANGED vars
    PROVE  PlanInv'
<1>1. /\ UNCHANGED <<scenario, document, source, record, entry, call, timeline, reported>>
  BY DEF vars
<1>2. TypeOK' /\ HistoryOk' /\ \A i \in Identities : EntryOk(i)'
  BY <1>1 DEF PlanInv, TypeOK, HistoryOk, EntryOk, Versions, Version, StoredBy, BoundLocally, Bound
<1>3. ASSUME NEW d \in Callers PROVE CallOk(call[d])' /\ WriterOk(d)'
  <2>1. CallOk(call[d]) /\ WriterOk(d)
    BY DEF PlanInv
  <2>2. CallOk(call[d])'
    BY <1>1, <2>1 DEF CallOk, CurrentOk, AskOk, BindOk, MaySwap, AmendmentMayBind, OrphanMayBind,
        FinalMayBind, CutoverMayBind, Matches, Durable, Versions, Version
  <2> QED BY <1>1, <2>1, <2>2 DEF WriterOk, At
<1>4. OneWriter' /\ SubjectInv' /\ BoundOnItsPrecondition' /\ BoundIsVerified' /\ RetiredForGood'
      /\ ReportedIsTrue'
  BY <1>1 DEF PlanInv, OneWriter, SubjectInv, BoundOnItsPrecondition, BoundIsVerified, RetiredForGood,
              ReportedIsTrue, Versions, Version, StoredBy, BoundLocally, Bound
<1>5. DivergenceInv'
  <2>1. DivergenceInv
    BY DEF PlanInv
  <2>2. NoRivals' = NoRivals /\ \A j \in Identities : Wrote(j)' = Wrote(j)
    BY <1>1 DEF NoRivals, Durable, Wrote
  <2>3. DocumentOk' = DocumentOk
    BY <1>1, <2>2 DEF DocumentOk, Owns
  <2>4. \A d \in Callers : VerifiedOk(call[d])' = VerifiedOk(call[d]) /\ PendingOk(call[d])' = PendingOk(call[d])
    BY <1>1, <2>2 DEF VerifiedOk, PendingOk
  <2> QED BY <1>1, <2>1, <2>3, <2>4 DEF DivergenceInv
<1> QED BY <1>2, <1>3, <1>4, <1>5 DEF PlanInv

(* Every step keeps the invariant.                                         *)
LEMMA PlanStep ==
    ASSUME PlanInv, [Next]_vars
    PROVE  PlanInv'
<1>1. ASSUME NEW c \in Callers, Open(c) PROVE PlanInv'
  <2>1. PICK r \in scenario.requests : \/ Begin(c, r) \/ Recover(c, r)
                                       \/ RecoverOrphan(c, r) \/ RetireBegin(c, r)
                                       \/ RetireAgain(c, r)
    BY <1>1 DEF Open
  <2>2. CASE Begin(c, r)
    BY <2>2, BeginMoves
  <2>3. CASE Recover(c, r)
    BY <2>3, FoundMoves
  <2>4. CASE RecoverOrphan(c, r)
    BY <2>4, RecoverOrphanMoves
  <2>5. CASE RetireBegin(c, r)
    BY <2>5, RetireBeginMoves
  <2>6. CASE RetireAgain(c, r)
    BY <2>6, RetiredMoves
  <2> QED BY <2>1, <2>2, <2>3, <2>4, <2>5, <2>6
<1>2. ASSUME NEW c \in Callers, Materialise(c) PROVE PlanInv'
  <2>1. CASE ReadSource(c) \/ CloseRead(c) \/ Amend(c) \/ ReadDocument(c) \/ LookupNew(c)
    BY <2>1, AskMoves
  <2>2. CASE LookupExisting(c)
    BY <2>2, FoundMoves
  <2>3. CASE CreateEntry(c)
    BY <2>3, CreateMoves
  <2>4. CASE Claim(c) \/ Settle(c) \/ ResumeUnsettled(c)
    BY <2>4, JournalMoves
  <2>5. CASE \E answer \in {"applied", "unknown"} : MutateLands(c, answer)
    BY <2>5, LandsMoves
  <2>6. CASE \/ \E answer \in {"rejected", "unknown"} : MutateWithoutEffect(c, answer)
             \/ ResumeOvertaken(c) \/ ResumeSettled(c)
    BY <2>6, WorkMoves
  <2>7. CASE LookupBound(c)
    BY <2>7, LookupBoundMoves
  <2> QED BY <1>2, <2>1, <2>2, <2>3, <2>4, <2>5, <2>6, <2>7 DEF Materialise
<1>3. ASSUME NEW c \in Callers, Bind(c) PROVE PlanInv'
  <2>1. CASE SwapRecord(c)
    BY <2>1, SwapMoves
  <2>2. CASE MarkEvidence(c)
    BY <2>2, EvidenceMoves
  <2>3. CASE ~SwapRecord(c) /\ ~MarkEvidence(c)
    BY <1>3, <2>3, BindMoves DEF Bind
  <2> QED BY <2>1, <2>2, <2>3
<1>4. ASSUME NEW c \in Callers, Retire(c) PROVE PlanInv'
  BY <1>4, RetireSwapMoves, RetiredMoves, EvidenceMoves DEF Retire
<1>5. ASSUME NEW c \in Callers, Abort(c) PROVE PlanInv'
  BY <1>5, AbortMoves
<1>6. CASE Next
  BY <1>1, <1>2, <1>3, <1>4, <1>5, <1>6, EditMoves DEF Next
<1> QED BY <1>6, PlanStutters

(* PlanInv holds throughout: types, the agreement of record and versions,  *)
(* of entries with the versions they were created for and of calls with    *)
(* what they read.                                                         *)
THEOREM PlanIsSound == Spec => []PlanInv
<1>1. Init => PlanInv
  BY PlanInit
<1>2. PlanInv /\ [Next]_vars => PlanInv'
  BY PlanStep
<1> QED BY <1>1, <1>2, PTL DEF Spec

(* A journal entry is bound at most once (_complete and its siblings).     *)
THEOREM EntriesAreBoundOnce == Spec => []BoundAtMostOnce
<1>1. PlanInv => BoundAtMostOnce
  <2>1. SUFFICES ASSUME PlanInv, NEW m \in Versions, NEW n \in Versions,
                        StoredBy(m) = StoredBy(n), StoredBy(m).kind \in Kinds
                 PROVE  m = n
    BY DEF BoundAtMostOnce
  <2>2. entry[StoredBy(m)].subject = m - 1 /\ entry[StoredBy(m)].subject = n - 1
    BY <2>1 DEF PlanInv, SubjectInv
  <2>3. m \in Nat /\ n \in Nat
    BY <2>1, LatestVersion DEF PlanInv
  <2> QED BY <2>2, <2>3
<1> QED BY <1>1, PlanIsSound, PTL

(* No lost update: a version stored for an entry replaces the version the  *)
(* request was checked against (compare_and_swap_plan).                    *)
THEOREM NoUpdateIsLost == Spec => []BoundOnItsPrecondition
<1>1. PlanInv => BoundOnItsPrecondition
  BY DEF PlanInv
<1> QED BY <1>1, PlanIsSound, PTL

(* The record names only bodies that were verified in the document.        *)
THEOREM BindingsAreVerified == Spec => []BoundIsVerified
<1>1. PlanInv => BoundIsVerified
  BY DEF PlanInv
<1> QED BY <1>1, PlanIsSound, PTL

(* A retired Plan is never active again, and only its final body changes.  *)
THEOREM RetirementIsFinal == Spec => []RetiredForGood
<1>1. PlanInv => RetiredForGood
  BY DEF PlanInv
<1> QED BY <1>1, PlanIsSound, PTL

(* A success that is returned is a fact of the record.                     *)
THEOREM ReportsAreTrue == Spec => []ReportedIsTrue
<1>1. PlanInv => ReportedIsTrue
  BY DEF PlanInv
<1> QED BY <1>1, PlanIsSound, PTL

(* A document that is not the bound one has an entry that answers for it.  *)
THEOREM DivergenceHasAnOwner == Spec => []DivergenceIsOwned
<1>1. PlanInv => DivergenceIsOwned
  <2>1. SUFFICES ASSUME PlanInv, scenario.documentEdits = {}, record.status = "active",
                        record.kind = "local_governance", document # record.digest
                 PROVE  \E i \in Durable :
                           /\ i.candidate = document
                           /\ entry[i].state \notin {"PREPARED", "FAILED_NO_EFFECT"}
                           /\ NoRivals => /\ entry[i].subject = record.revision
                                          /\ entry[i].state # "CONFLICT"
    BY DEF DivergenceIsOwned
  <2>2. PICK i \in Identities : Owns(i)
    BY <2>1 DEF PlanInv, DivergenceInv, DocumentOk
  <2>3. i \in Durable
    BY <2>2 DEF Owns, Wrote, Durable
  <2> QED BY <2>2, <2>3 DEF Owns, Wrote
<1> QED BY <1>1, PlanIsSound, PTL
=============================================================================
