------------------------- MODULE ConfigurationStore -------------------------
(***************************************************************************)
(* The two-slot configuration store (src/src/configuration_store.cpp): two *)
(* NVS slots and a one-byte pointer to the active one, the RAM copy the    *)
(* rest of the firmware reads, and the rule loader that is handed every    *)
(* committed document.  apply() and rollback() run in the HTTP task, one   *)
(* at a time and under ConfigLock; power may be lost between any two of    *)
(* their writes.  A document is its revision and its payload: parsing and  *)
(* canonicalisation are abstracted to the payload being a member of Docs   *)
(* (structurally valid) and of Accepted (the rule and schedule validators  *)
(* take it).  A missing slot and a corrupt one read alike: Unreadable.     *)
(***************************************************************************)
EXTENDS Naturals

CONSTANTS
  Docs,         \* payloads validateDocument() takes
  Accepted,     \* those the registered semantic validator takes as well
  Empty,        \* the payload of defaultConfiguration()
  MaxRev,       \* UINT32_MAX
  Unreadable,   \* what loadSlot() finds in a missing or damaged slot
  Decaying      \* slots whose bytes may be damaged while the power is off

Slots    == {0, 1}
Document == [rev : 0..MaxRev, doc : Docs]

ASSUME StoreAssumption ==
  /\ MaxRev \in Nat
  /\ Accepted \subseteq Docs
  /\ Empty \in Accepted
  /\ Unreadable \notin Document
  /\ Decaying \subseteq Slots

VARIABLES
  active,       \* NVS: the "active" pointer
  slot,         \* NVS: what slot0 and slot1 hold
  ready,        \* RAM: configReady
  activeSlot,   \* RAM: the slot activeDoc came from
  activeDoc,    \* RAM: activeRaw and activeRevision
  pc,           \* where boot, or the request in hand, has got to
  staged,       \* the document apply() or rollback() is committing
  engine,       \* PersistedRuleLoader: loadedRevision_, and the payload in force
  previous,     \* history: the document that was active before this one
  disturbed,    \* history: since then a commit got as far as its slot write and
                \* failed, or a slot was damaged
  everActive    \* history: every payload that was once active

nvs     == <<active, slot>>
ram     == <<ready, activeSlot, activeDoc>>
history == <<previous, disturbed, everActive>>
vars    == <<active, slot, ready, activeSlot, activeDoc, pc, staged, engine,
             previous, disturbed, everActive>>

Default     == [rev |-> 0, doc |-> Empty]
Other(s)    == 1 - s
Readable(s) == slot[s] # Unreadable

\* The document begin() would settle on with the NVS as it is now.
BootDocument == IF Readable(active) THEN slot[active]
                ELSE IF Readable(Other(active)) THEN slot[Other(active)]
                ELSE Default

Up == pc \in {"idle", "slot", "pointer", "callback"}

TypeOK ==
  /\ active \in Slots
  /\ slot \in [Slots -> Document \cup {Unreadable}]
  /\ ready \in BOOLEAN
  /\ activeSlot \in Slots
  /\ activeDoc \in Document
  /\ pc \in {"off", "default", "reload", "idle", "slot", "pointer", "callback"}
  /\ staged \in Document
  /\ engine \in Document
  /\ previous \in Document \cup {Unreadable}
  /\ disturbed \in BOOLEAN
  /\ everActive \subseteq Docs

\* A factory-fresh device, or one whose older firmware left any document (its
\* semantics were not validated then) in either slot, the other one unreadable.
Init ==
  /\ active = 0
  /\ slot \in {[s \in Slots |-> IF s = used THEN d ELSE Unreadable] :
                  used \in Slots, d \in Document \cup {Unreadable}}
  /\ ready = FALSE /\ activeSlot = 0 /\ activeDoc = Default
  /\ pc = "off" /\ staged = Default /\ engine = Default
  /\ previous = Unreadable /\ disturbed = FALSE
  /\ everActive = {BootDocument.doc}

-----------------------------------------------------------------------------
(* begin(), run by setup() *)

Serve(s, d) == /\ ready' = TRUE /\ activeSlot' = s /\ activeDoc' = d
               /\ everActive' = everActive \cup {d.doc}
               /\ pc' = "reload"

GiveUp == /\ pc' = "reload"
          /\ UNCHANGED <<active, slot, ram, staged, engine, history>>

\* No mutex, or the NVS cannot be opened: the store stays as it is, not ready.
BootUnopened == pc = "off" /\ GiveUp

\* The slot the pointer names is usable.
BootLoad == /\ pc = "off" /\ Readable(active)
            /\ Serve(active, slot[active])
            /\ UNCHANGED <<nvs, staged, engine, previous, disturbed>>

\* Fault: recovery serves the other slot and leaves the pointer where it was.
BootRecoverInPlace ==
  /\ pc = "off" /\ ~Readable(active) /\ Readable(Other(active))
  /\ Serve(Other(active), slot[Other(active)])
  /\ UNCHANGED <<nvs, staged, engine, previous, disturbed>>

\* It is not, the other one is: move the pointer there first.
BootRecover ==
  /\ pc = "off" /\ ~Readable(active) /\ Readable(Other(active))
  /\ \/ /\ active' = Other(active)
        /\ Serve(Other(active), slot[Other(active)])
        /\ UNCHANGED <<slot, staged, engine, previous, disturbed>>
     \/ GiveUp

NeitherReadable == ~Readable(active) /\ ~Readable(Other(active))

\* Neither is: write the defaults, then point at them.
BootDefaultSlot ==
  /\ pc = "off" /\ NeitherReadable
  /\ \/ /\ slot' = [slot EXCEPT ![0] = Default] /\ pc' = "default"
        /\ UNCHANGED <<active, ram, staged, engine, history>>
     \/ GiveUp

BootDefaultPointer ==
  /\ pc = "default"
  /\ \/ /\ active' = 0
        /\ slot' = [slot EXCEPT ![1] = Unreadable]
        /\ Serve(0, Default)
        /\ UNCHANGED <<staged, engine, previous, disturbed>>
     \/ GiveUp

\* PersistedRuleLoader::activateDocument: a payload its parser refuses is
\* recorded as loaded and leaves the rule in force alone.
Activated(d) == [rev |-> d.rev,
                 doc |-> IF d.doc \in Accepted THEN d.doc ELSE engine.doc]

\* PersistedRuleLoader::begin.  Without a store it reads revision 0 and "{}".
Reload == /\ pc = "reload" /\ pc' = "idle"
          /\ engine' = IF ready THEN Activated(activeDoc)
                       ELSE [rev |-> 0, doc |-> engine.doc]
          /\ UNCHANGED <<nvs, ram, staged, history>>

-----------------------------------------------------------------------------
(* apply() and rollback(), called by the HTTP handlers *)

\* Faults: no exhaustion check; a revision used again, or counted twice; the
\* active slot written in place.
ExhaustedNever    == FALSE
NextRevisionSame  == activeDoc.rev
NextRevisionTwice == activeDoc.rev + 2
TargetSlotInPlace == activeSlot

Exhausted         == activeDoc.rev = MaxRev
NextRevision      == (activeDoc.rev + 1) % (MaxRev + 1)   \* a uint32_t
TargetSlot        == Other(activeSlot)

\* canonicalizeCandidate() or the previous payload, stamped and validated.
\* Any refusal up to here returns without a trace.
Stage(d) == /\ ~Exhausted /\ d \in Accepted
            /\ staged' = [rev |-> NextRevision, doc |-> d]
            /\ pc' = "slot"
            /\ UNCHANGED <<nvs, ram, engine, history>>

Apply(d) == pc = "idle" /\ ready /\ Stage(d)

Rollback == /\ pc = "idle" /\ ready /\ Readable(TargetSlot)
            /\ Stage(slot[TargetSlot].doc)

Abandon == pc' = "idle" /\ disturbed' = TRUE

\* persistSlotVerified: the write succeeds, is cut short and keeps the old
\* bytes, or leaves something the read-back refuses.
WriteSlot ==
  /\ pc = "slot"
  /\ \/ /\ slot' = [slot EXCEPT ![TargetSlot] = staged]
        /\ pc' = "pointer" /\ UNCHANGED disturbed
     \/ UNCHANGED slot /\ Abandon
     \/ slot' = [slot EXCEPT ![TargetSlot] = Unreadable] /\ Abandon
  /\ UNCHANGED <<active, ram, staged, engine, previous, everActive>>

\* The commit point, and the RAM update in the same critical section.
WritePointer ==
  /\ pc = "pointer"
  /\ \/ /\ active' = TargetSlot
        /\ activeSlot' = TargetSlot /\ activeDoc' = staged
        /\ previous' = activeDoc /\ disturbed' = FALSE
        /\ everActive' = everActive \cup {staged.doc}
        /\ pc' = "callback"
     \/ Abandon /\ UNCHANGED <<active, activeSlot, activeDoc, previous, everActive>>
  /\ UNCHANGED <<slot, ready, staged, engine>>

\* Fault: the commit tells nobody.
CallbackDropped == /\ pc = "callback" /\ pc' = "idle"
                   /\ UNCHANGED <<nvs, ram, staged, engine, history>>

\* activatePersistedConfiguration, after the lock is released.
Callback == /\ pc = "callback" /\ pc' = "idle"
            /\ engine' = Activated(activeDoc)
            /\ UNCHANGED <<nvs, ram, staged, history>>

-----------------------------------------------------------------------------
\* The power fails, or the device is reset: the NVS stays, but for damage.
PowerLoss ==
  /\ pc # "off" /\ pc' = "off"
  /\ \E damaged \in SUBSET Decaying :
        slot' = [s \in Slots |-> IF s \in damaged THEN Unreadable ELSE slot[s]]
  /\ ready' = FALSE /\ activeSlot' = 0 /\ activeDoc' = Default
  /\ staged' = Default /\ engine' = Default
  /\ disturbed' = (disturbed \/ pc \in {"slot", "pointer"} \/ slot' # slot)
  /\ UNCHANGED <<active, previous, everActive>>

Boot == BootUnopened \/ BootLoad \/ BootRecover \/ BootDefaultSlot \/ BootDefaultPointer \/ Reload
Request == (\E d \in Docs : Apply(d)) \/ Rollback
             \/ WriteSlot \/ WritePointer \/ Callback
Next == Boot \/ Request \/ PowerLoss

Spec == Init /\ [][Next]_vars

-----------------------------------------------------------------------------
(* Properties *)

\* While the store serves, its RAM copy is what a reboot at this very moment
\* would come back with, whichever write of apply() or rollback() is in hand.
RamIsDurable ==
  ready => /\ activeSlot = active
           /\ activeDoc = slot[active]
           /\ activeDoc = BootDocument

\* Between requests the rule loader is on the revision the store reports, and
\* runs its payload if the validators accept it.
EngineFollowsStore ==
  pc \in {"idle", "slot", "pointer"} /\ ready =>
     /\ engine.rev = activeDoc.rev
     /\ activeDoc.doc \in Accepted => engine.doc = activeDoc.doc

\* The document that was active before this one is in the other slot, ready
\* for rollback(), unless a commit failed or lost power after it, or a slot
\* was damaged.
PreviousIsInOtherSlot ==
  pc = "idle" /\ ready /\ ~disturbed => slot[TargetSlot] = previous

\* The two slots never carry the same revision, so the revision the pointer
\* selects and the previous_revision of the status report name two documents.
SlotRevisionsDiffer ==
  Readable(0) /\ Readable(1) => slot[0].rev # slot[1].rev

\* docs/configuration.md:22: "Rollback copies the previous payload into a new
\* monotonic revision".  What rollback() would copy was once active.
RollbackTargetWasActive ==
  pc = "idle" /\ ready /\ Readable(TargetSlot) =>
     slot[TargetSlot].doc \in everActive

\* No reboot and no failed write is visible in the durable configuration.
Atomic == INSTANCE AtomicConfiguration WITH current <- BootDocument
AtomicSpec == Atomic!Spec
=============================================================================
