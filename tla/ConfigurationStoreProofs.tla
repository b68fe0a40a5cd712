---------------------- MODULE ConfigurationStoreProofs ----------------------
(***************************************************************************)
(* Proofs about ConfigurationStore, for every set of payloads, every       *)
(* largest revision and every set of slots that may decay.                 *)
(***************************************************************************)
EXTENDS ConfigurationStore, TLAPS

\* What a request or a boot that is half way through has established.
InFlight ==
  /\ pc \in {"off", "default"} => ~ready
  /\ pc \in {"slot", "pointer", "callback"} => ready
  /\ pc \in {"slot", "pointer"} => staged.rev = activeDoc.rev + 1
  /\ pc = "pointer" => slot[TargetSlot] = staged
  /\ pc = "default" => slot[0] = Default /\ slot[1] = Unreadable

\* The inductive invariant: none of its parts is preserved without the others.
IInv == TypeOK /\ RamIsDurable /\ EngineFollowsStore /\ SlotRevisionsDiffer /\ InFlight

LEMMA DefaultIsDocument == Default \in Document
BY StoreAssumption DEF Default, Document

\* begin() always settles on a well-formed document.
LEMMA BootDocumentType == TypeOK => BootDocument \in Document
BY DefaultIsDocument DEF TypeOK, BootDocument, Readable, Other, Slots

LEMMA InitIInv == Init => IInv
<1> SUFFICES ASSUME Init PROVE IInv
  OBVIOUS
<1> USE StoreAssumption, DefaultIsDocument
<1>1. slot \in [Slots -> Document \cup {Unreadable}]
  BY DEF Init, Slots
<1>2. BootDocument \in Document
  BY <1>1 DEF Init, BootDocument, Readable, Other, Slots
<1>3. TypeOK
  BY <1>1, <1>2 DEF Init, TypeOK, Slots, Document
<1>4. ~(Readable(0) /\ Readable(1))
  <2>1. PICK used \in Slots, d \in Document \cup {Unreadable} :
           slot = [s \in Slots |-> IF s = used THEN d ELSE Unreadable]
    BY DEF Init
  <2> QED
    BY <2>1 DEF Slots, Readable
<1> QED
  BY <1>3, <1>4 DEF Init, IInv, RamIsDurable, EngineFollowsStore,
     SlotRevisionsDiffer, InFlight

\* Every step preserves the inductive invariant.
LEMMA NextIInv == IInv /\ [Next]_vars => IInv'
<1> SUFFICES ASSUME IInv, [Next]_vars PROVE IInv'
  OBVIOUS
<1> USE StoreAssumption, DefaultIsDocument
<1> USE DEF IInv, nvs, ram, history
<1>1. CASE BootLoad
  <2>1. slot[active] \in Document
    BY <1>1 DEF BootLoad, Readable, TypeOK
  <2>2. TypeOK'
    BY <1>1, <2>1 DEF BootLoad, Serve, TypeOK, Document
  <2> QED
    BY <1>1, <2>1, <2>2 DEF BootLoad, Serve, RamIsDurable, EngineFollowsStore,
       SlotRevisionsDiffer, InFlight, BootDocument, Readable
<1>2. CASE BootRecover
  <2>1. slot[Other(active)] \in Document /\ Other(active) \in Slots
    BY <1>2 DEF BootRecover, Readable, TypeOK, Slots, Other
  <2>2. TypeOK'
    BY <1>2, <2>1 DEF BootRecover, Serve, GiveUp, TypeOK, Document
  <2> QED
    BY <1>2, <2>1, <2>2 DEF BootRecover, Serve, GiveUp, RamIsDurable,
       EngineFollowsStore, SlotRevisionsDiffer, InFlight, BootDocument, Readable
<1>3. CASE BootDefaultSlot
  <2>1. TypeOK'
    BY <1>3 DEF BootDefaultSlot, GiveUp, TypeOK
  <2>2. slot[0] = Unreadable /\ slot[1] = Unreadable
    BY <1>3 DEF BootDefaultSlot, NeitherReadable, Readable, Other, TypeOK, Slots
  <2> QED
    BY <1>3, <2>1, <2>2 DEF BootDefaultSlot, GiveUp, RamIsDurable, EngineFollowsStore,
       SlotRevisionsDiffer, InFlight, Readable, TypeOK, Slots
<1>4. CASE BootDefaultPointer
  <2>1. TypeOK'
    BY <1>4 DEF BootDefaultPointer, Serve, GiveUp, TypeOK, Slots, Document, Default
  <2> QED
    BY <1>4, <2>1 DEF BootDefaultPointer, Serve, GiveUp, RamIsDurable,
       EngineFollowsStore, SlotRevisionsDiffer, InFlight, BootDocument, Readable,
       TypeOK, Slots
<1>5. CASE Reload
  <2>1. engine' \in Document
    BY <1>5 DEF Reload, Activated, TypeOK, Document
  <2> QED
    BY <1>5, <2>1 DEF Reload, Activated, TypeOK, RamIsDurable, EngineFollowsStore,
       SlotRevisionsDiffer, InFlight, BootDocument, Readable
<1>6. ASSUME NEW d, Stage(d), pc = "idle", ready PROVE IInv'
  <2>1. staged' \in Document /\ staged'.rev = activeDoc.rev + 1
    <3>1. activeDoc.rev \in 0..MaxRev /\ activeDoc.rev # MaxRev
      BY <1>6 DEF Stage, Exhausted, TypeOK, Document
    <3>2. NextRevision = activeDoc.rev + 1
      BY <3>1 DEF NextRevision
    <3> QED
      BY <1>6, <3>1, <3>2 DEF Stage, Document
  <2> QED
    BY <1>6, <2>1 DEF Stage, TypeOK, RamIsDurable, EngineFollowsStore,
       SlotRevisionsDiffer, InFlight, BootDocument, Readable
<1>7. CASE WriteSlot
  <2>1. /\ TargetSlot \in Slots /\ TargetSlot # active
        /\ TargetSlot' = TargetSlot
        /\ ready /\ activeDoc = slot[active]
    BY <1>7 DEF WriteSlot, InFlight, TypeOK, RamIsDurable, TargetSlot, Other, Slots
  <2>2. slot' \in [Slots -> Document \cup {Unreadable}] /\ slot'[active] = slot[active]
    BY <1>7, <2>1 DEF WriteSlot, TypeOK
  <2>3. TypeOK'
    BY <1>7, <2>2 DEF WriteSlot, Abandon, TypeOK
  <2>4. RamIsDurable'
    BY <1>7, <2>2 DEF WriteSlot, RamIsDurable, BootDocument, Readable, TypeOK
  <2>5. EngineFollowsStore'
    BY <1>7 DEF WriteSlot, Abandon, EngineFollowsStore
  <2>6. InFlight'
    BY <1>7, <2>1 DEF WriteSlot, Abandon, InFlight, TypeOK
  <2>7. SlotRevisionsDiffer'
    <3>1. activeDoc.rev \in Nat
      BY DEF TypeOK, Document
    <3>2. CASE slot' = [slot EXCEPT ![TargetSlot] = staged]
      <4>1. slot'[TargetSlot].rev = slot'[active].rev + 1 /\ slot'[active].rev \in Nat
        BY <1>7, <2>1, <2>2, <3>1, <3>2 DEF WriteSlot, InFlight, TypeOK
      <4> QED
        BY <2>1, <4>1 DEF SlotRevisionsDiffer, TypeOK, Slots
    <3>3. CASE slot' = slot
      BY <3>3 DEF SlotRevisionsDiffer, Readable
    <3>4. CASE slot' = [slot EXCEPT ![TargetSlot] = Unreadable]
      BY <2>1, <3>4 DEF SlotRevisionsDiffer, Readable, TypeOK, Slots
    <3> QED
      BY <1>7, <3>2, <3>3, <3>4 DEF WriteSlot
  <2> QED
    BY <2>3, <2>4, <2>5, <2>6, <2>7
<1>8. CASE WritePointer
  <2>1. TargetSlot \in Slots /\ slot[TargetSlot] = staged
    BY <1>8 DEF WritePointer, InFlight, TypeOK, TargetSlot, Other, Slots
  <2>2. TypeOK'
    BY <1>8, <2>1 DEF WritePointer, Abandon, TypeOK, Document
  <2> QED
    BY <1>8, <2>1, <2>2 DEF WritePointer, Abandon, RamIsDurable, EngineFollowsStore,
       SlotRevisionsDiffer, InFlight, BootDocument, Readable, TypeOK
<1>9. CASE Callback
  <2>1. engine' \in Document
    BY <1>9 DEF Callback, Activated, TypeOK, Document
  <2> QED
    BY <1>9, <2>1 DEF Callback, Activated, TypeOK, RamIsDurable, EngineFollowsStore,
       SlotRevisionsDiffer, InFlight, BootDocument, Readable
<1>10. CASE PowerLoss
  <2>1. slot' \in [Slots -> Document \cup {Unreadable}]
    BY <1>10 DEF PowerLoss, TypeOK
  <2>2. TypeOK'
    BY <1>10, <2>1 DEF PowerLoss, TypeOK, Slots
  <2>3. \A s \in Slots : slot'[s] \in {slot[s], Unreadable}
    BY <1>10 DEF PowerLoss
  <2> QED
    BY <1>10, <2>2, <2>3 DEF PowerLoss, RamIsDurable, EngineFollowsStore,
       SlotRevisionsDiffer, InFlight, Readable, Slots
<1>11. CASE UNCHANGED vars
  BY <1>11 DEF vars, TypeOK, RamIsDurable, EngineFollowsStore, SlotRevisionsDiffer,
     InFlight, BootDocument, Readable, TargetSlot
<1>12. CASE \E d \in Docs : Apply(d)
  BY <1>6, <1>12 DEF Apply
<1>13. CASE Rollback
  BY <1>6, <1>13 DEF Rollback
<1>14. CASE BootUnopened
  BY <1>14 DEF BootUnopened, GiveUp, TypeOK, RamIsDurable, EngineFollowsStore,
     SlotRevisionsDiffer, InFlight, BootDocument, Readable, TargetSlot
<1> QED
  BY <1>1, <1>2, <1>3, <1>4, <1>5, <1>7, <1>8, <1>9, <1>10, <1>11, <1>12, <1>13, <1>14
     DEF Next, Boot, Request

LEMMA Invariance == Spec => []IInv
BY InitIInv, NextIInv, PTL DEF Spec

\* Every variable keeps its type.
THEOREM TypeCorrect == Spec => []TypeOK
BY Invariance, PTL DEF IInv

\* The RAM copy is what a reboot would load, at every step of a commit.
THEOREM RamAlwaysDurable == Spec => []RamIsDurable
BY Invariance, PTL DEF IInv

\* The rule loader is on the store's revision whenever no commit is between
\* its pointer write and its callback.
THEOREM EngineAlwaysFollows == Spec => []EngineFollowsStore
BY Invariance, PTL DEF IInv

\* The two slots never carry the same revision, even when slots decay.
THEOREM RevisionsAlwaysDiffer == Spec => []SlotRevisionsDiffer
BY Invariance, PTL DEF IInv

-----------------------------------------------------------------------------
\* What rollback() will find, at every point but between the slot write and the
\* pointer write of a commit: the document before the one to be booted.
PreviousKept ==
  ~disturbed /\ pc # "pointer" =>
     previous = IF Readable(active) THEN slot[Other(active)] ELSE Unreadable

LEMMA InitPreviousKept == Init => PreviousKept
<1> SUFFICES ASSUME Init PROVE PreviousKept
  OBVIOUS
<1>1. PICK used \in Slots, d \in Document \cup {Unreadable} :
         slot = [s \in Slots |-> IF s = used THEN d ELSE Unreadable]
  BY DEF Init
<1>2. previous = Unreadable /\ active = 0
  BY DEF Init
<1>3. Readable(0) => slot[1] = Unreadable
  BY <1>1 DEF Slots, Readable
<1> QED
  BY <1>2, <1>3 DEF PreviousKept, Other

\* No boot, no write and no power loss that goes undisturbed loses it.
LEMMA NextPreviousKept == IInv /\ PreviousKept /\ [Next]_vars => PreviousKept'
<1> SUFFICES ASSUME IInv, PreviousKept, [Next]_vars PROVE PreviousKept'
  OBVIOUS
<1> USE DEF nvs, ram, history
<1>1. CASE BootUnopened \/ BootLoad \/ Reload \/ Callback \/ UNCHANGED vars
  BY <1>1 DEF BootUnopened, GiveUp, BootLoad, Serve, Reload, Callback, vars, PreviousKept,
     Readable
<1>2. CASE BootRecover
  <2>1. active \in Slots /\ Other(Other(active)) = active /\ slot[active] = Unreadable
    BY <1>2 DEF BootRecover, IInv, TypeOK, Slots, Other, Readable
  <2> QED
    BY <1>2, <2>1 DEF BootRecover, Serve, GiveUp, PreviousKept, Readable
<1>3. CASE BootDefaultSlot
  <2>1. slot[0] = Unreadable /\ slot[1] = Unreadable
    BY <1>3 DEF BootDefaultSlot, NeitherReadable, Readable, Other, IInv, TypeOK, Slots
  <2>2. active \in {0, 1} /\ active' = active
    BY <1>3 DEF BootDefaultSlot, GiveUp, IInv, TypeOK, Slots
  <2>3. ~disturbed' => previous' = Unreadable
    BY <1>3, <2>1, <2>2 DEF BootDefaultSlot, GiveUp, PreviousKept, Readable
  <2>4. slot'[1] = Unreadable /\ (slot'[0] = Unreadable \/ slot'[0] = Default)
    BY <1>3, <2>1 DEF BootDefaultSlot, GiveUp, IInv, TypeOK, Slots
  <2> QED
    BY <2>2, <2>3, <2>4 DEF PreviousKept, Readable, Other
<1>4. CASE BootDefaultPointer
  <2>1. slot[0] = Default /\ slot[1] = Unreadable /\ active \in {0, 1}
    BY <1>4 DEF BootDefaultPointer, IInv, InFlight, TypeOK, Slots
  <2>2. ~disturbed => previous = Unreadable
    BY <1>4, <2>1 DEF BootDefaultPointer, PreviousKept, Readable, Other
  <2>3. CASE UNCHANGED <<active, slot, history>>
    BY <1>4, <2>3 DEF BootDefaultPointer, PreviousKept, Readable
  <2>4. CASE active' = 0 /\ slot' = [slot EXCEPT ![1] = Unreadable]
    <3>1. slot'[1] = Unreadable
      BY <2>4 DEF IInv, TypeOK, Slots
    <3>2. previous' = previous /\ disturbed' = disturbed /\ pc # "pointer"
      BY <1>4 DEF BootDefaultPointer, Serve, GiveUp
    <3> QED
      BY <2>2, <2>4, <3>1, <3>2 DEF PreviousKept, Readable, Other
  <2> QED
    BY <1>4, <2>3, <2>4 DEF BootDefaultPointer, GiveUp
<1>5. CASE (\E d \in Docs : Apply(d)) \/ Rollback
  BY <1>5 DEF Apply, Rollback, Stage, PreviousKept, Readable
<1>6. CASE WriteSlot
  BY <1>6 DEF WriteSlot, Abandon, PreviousKept
<1>7. CASE WritePointer
  <2>1. /\ TargetSlot = Other(active) /\ Other(Other(active)) = active
        /\ slot[TargetSlot] = staged /\ staged # Unreadable
        /\ slot[active] = activeDoc
    BY <1>7, StoreAssumption DEF WritePointer, IInv, InFlight, TypeOK, RamIsDurable,
       TargetSlot, Other, Slots
  <2> QED
    BY <1>7, <2>1 DEF WritePointer, Abandon, PreviousKept, Readable
<1>8. CASE PowerLoss
  BY <1>8 DEF PowerLoss, PreviousKept, Readable
<1> QED
  BY <1>1, <1>2, <1>3, <1>4, <1>5, <1>6, <1>7, <1>8 DEF Next, Boot, Request

\* Unless a commit failed on the way or a slot was damaged, rollback() finds
\* the document that was active before, however often the device restarted.
THEOREM PreviousAlwaysInOtherSlot == Spec => []PreviousIsInOtherSlot
<1>1. IInv /\ PreviousKept => PreviousIsInOtherSlot
  <2> SUFFICES ASSUME IInv, PreviousKept, pc = "idle", ready, ~disturbed
               PROVE  slot[TargetSlot] = previous
    BY DEF PreviousIsInOtherSlot
  <2>1. activeSlot = active /\ slot[active] # Unreadable
    BY StoreAssumption DEF IInv, TypeOK, RamIsDurable
  <2> QED
    BY <2>1 DEF PreviousKept, Readable, TargetSlot
<1> QED
  BY <1>1, Invariance, InitPreviousKept, NextPreviousKept, PTL DEF Spec

-----------------------------------------------------------------------------
\* Each step of the store is a commit of the atomic configuration or invisible
\* to it.  Only WritePointer commits: it swaps in the staged document, whose
\* revision is one more than that of the document in force.
LEMMA StepRefinement ==
  ASSUME Decaying = {}, IInv, IInv', [Next]_vars
  PROVE  [Atomic!Next]_BootDocument
<1> USE StoreAssumption
<1> USE DEF nvs, ram, history
<1>1. CASE UNCHANGED <<active, slot>>
  BY <1>1 DEF BootDocument, Readable
<1>2. CASE BootRecover
  BY <1>2 DEF BootRecover, Serve, GiveUp, BootDocument, Readable, IInv, TypeOK,
     Slots, Other
<1>3. CASE BootDefaultSlot
  <2>1. slot[0] = Unreadable /\ slot[1] = Unreadable
    BY <1>3 DEF BootDefaultSlot, NeitherReadable, Readable, Other, IInv, TypeOK, Slots
  <2>2. active \in {0, 1} /\ active' = active /\ Default # Unreadable
    BY <1>3, DefaultIsDocument DEF BootDefaultSlot, GiveUp, IInv, TypeOK, Slots
  <2>3. BootDocument = Default
    BY <2>1, <2>2 DEF BootDocument, Readable, Other
  <2>4. BootDocument' = Default
    <3>1. CASE slot' = slot
      BY <2>1, <2>2, <3>1 DEF BootDocument, Readable, Other
    <3>2. CASE slot' = [slot EXCEPT ![0] = Default]
      <4>1. slot'[0] = Default /\ slot'[1] = Unreadable
        BY <2>1, <3>2 DEF IInv, TypeOK, Slots
      <4> QED
        BY <2>2, <4>1 DEF BootDocument, Readable, Other
    <3> QED
      BY <1>3, <3>1, <3>2 DEF BootDefaultSlot, GiveUp
  <2> QED
    BY <2>3, <2>4
<1>4. CASE BootDefaultPointer
  <2>1. slot[0] = Default /\ slot[1] = Unreadable
    BY <1>4 DEF BootDefaultPointer, IInv, InFlight
  <2>2. active \in {0, 1} /\ active' \in {0, 1} /\ Default # Unreadable
    BY DefaultIsDocument DEF IInv, TypeOK, Slots
  <2>3. slot'[0] = Default /\ slot'[1] = Unreadable
    BY <1>4, <2>1 DEF BootDefaultPointer, GiveUp, IInv, TypeOK, Slots
  <2> QED
    BY <2>1, <2>2, <2>3 DEF BootDocument, Readable, Other
<1>5. CASE WriteSlot
  <2>1. TargetSlot # active /\ ready /\ activeDoc = slot[active] /\ activeDoc \in Document
    BY <1>5 DEF WriteSlot, IInv, InFlight, TypeOK, RamIsDurable, TargetSlot, Other, Slots
  <2>2. slot'[active] = slot[active]
    BY <1>5, <2>1 DEF WriteSlot, IInv, TypeOK
  <2> QED
    BY <1>5, <2>1, <2>2 DEF WriteSlot, BootDocument, Readable
<1>6. CASE WritePointer
  <2>1. /\ ready /\ slot[TargetSlot] = staged
        /\ staged \in Document /\ activeDoc \in Document
        /\ staged.rev = activeDoc.rev + 1
        /\ BootDocument = activeDoc
    BY <1>6 DEF WritePointer, IInv, InFlight, TypeOK, RamIsDurable
  <2>2. CASE active' = TargetSlot
    <3>1. BootDocument' = staged
      BY <1>6, <2>1, <2>2 DEF WritePointer, BootDocument, Readable
    <3>2. /\ staged = [rev |-> activeDoc.rev + 1, doc |-> staged.doc]
          /\ staged.doc \in Docs /\ activeDoc.rev < MaxRev
      BY <2>1 DEF Document
    <3>3. Atomic!Commit(staged.doc)
      BY <2>1, <3>1, <3>2 DEF Atomic!Commit
    <3> QED
      BY <3>2, <3>3 DEF Atomic!Next
  <2> QED
    BY <1>1, <1>6, <2>2 DEF WritePointer
<1>7. CASE PowerLoss
  <2>1. slot' = slot /\ active' = active
    BY <1>7 DEF PowerLoss, IInv, TypeOK
  <2> QED
    BY <1>1, <2>1
<1>8. CASE BootUnopened \/ BootLoad \/ Reload \/ Callback \/ UNCHANGED vars
  BY <1>1, <1>8 DEF BootUnopened, GiveUp, BootLoad, Serve, Reload, Callback, vars
<1>9. CASE (\E d \in Docs : Apply(d)) \/ Rollback
  BY <1>1, <1>9 DEF Apply, Rollback, Stage
<1> QED
  BY <1>2, <1>3, <1>4, <1>5, <1>6, <1>7, <1>8, <1>9 DEF Next, Boot, Request

\* While no stored byte decays, the store is one durable configuration that
\* commits replace in one step, whatever write fails and whenever power is lost.
THEOREM ImplementsAtomic == ASSUME Decaying = {} PROVE Spec => AtomicSpec
<1>1. Init => Atomic!Init
  BY BootDocumentType, InitIInv DEF IInv, Atomic!Init, Document
<1>2. IInv /\ IInv' /\ [Next]_vars => [Atomic!Next]_BootDocument
  BY StepRefinement
<1> QED
  BY <1>1, <1>2, Invariance, PTL DEF Spec, AtomicSpec, Atomic!Spec
=============================================================================
