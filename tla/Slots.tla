-------------------------------- MODULE Slots --------------------------------
(***************************************************************************)
(* sig<P...> of base/sigslot.hpp: a list of slots, the latest first, and   *)
(* fire(), which walks it and calls each.  A slot may connect and          *)
(* disconnect slots of the signal that is calling it, and fire it again,   *)
(* so several walks may be under way, each inside a slot of the one below. *)
(*                                                                         *)
(* A walk holds an iterator to the slot it is calling.  Erasing that slot, *)
(* or one that is not in the list, is undefined behaviour: intact becomes  *)
(* FALSE, and the model follows the program no further.                    *)
(***************************************************************************)
EXTENDS Integers, Sequences, SequencesExt

CONSTANTS
  MaxSlots,  \* bound: calls of connect()
  MaxFires,  \* bound: calls of fire()
  MaxDepth   \* bound: walks inside one another

ASSUME BoundAssumption == MaxSlots \in Nat /\ MaxFires \in Nat /\ MaxDepth \in Nat

SlotIds == 1 .. MaxSlots

VARIABLES
  m_slots,    \* the connected slots, in the order of the list
  connected,  \* how many slots were ever connected; slot n was the n-th
  walks,      \* the calls of fire() under way, the innermost last
  fires,      \* how many times fire() was called
  intact      \* history: no undefined behaviour so far

vars == <<m_slots, connected, walks, fires, intact>>

(* A walk: where its iterator is, and, as history, the list when it began  *)
(* and the slots it has called.                                            *)
Walk(at, start, called) == [at |-> at, start |-> start, called |-> called]

Init ==
  /\ m_slots = <<>>
  /\ connected = 0
  /\ walks = <<>>
  /\ fires = 0
  /\ intact = TRUE

-----------------------------------------------------------------------------
\* Mutant: the slot is put at both ends of the list.
connectTwice ==
  /\ intact
  /\ connected < MaxSlots
  /\ connected' = connected + 1
  /\ m_slots' = (<<connected + 1>> \o m_slots) \o <<connected + 1>>
  /\ UNCHANGED <<walks, fires, intact>>

connect ==
  /\ intact
  /\ connected < MaxSlots
  /\ connected' = connected + 1
  /\ m_slots' = <<connected + 1>> \o m_slots
  /\ UNCHANGED <<walks, fires, intact>>

(* Where an iterator points, in a list that has its slot. *)
IndexOf(seq, id) == SelectInSeq(seq, LAMBDA s : s = id)

(* The slots some walk is calling. *)
Calling == {walks[w].at : w \in DOMAIN walks}

(* A slot that was ever connected; its iterator is what connect returned.  *)
disconnect(id) ==
  /\ intact
  /\ id <= connected
  /\ m_slots' = RemoveFirst(m_slots, id)
  /\ intact' = (Contains(m_slots, id) /\ id \notin Calling)
  /\ UNCHANGED <<connected, walks, fires>>

disconnectAll ==
  /\ intact
  /\ m_slots' = <<>>
  /\ intact' = (walks = <<>>)
  /\ UNCHANGED <<connected, walks, fires>>

fire ==
  /\ intact
  /\ fires < MaxFires
  /\ Len(walks) < MaxDepth
  /\ fires' = fires + 1
  /\ walks' = IF m_slots = <<>> THEN walks
              ELSE Append(walks, Walk(Head(m_slots), m_slots, <<Head(m_slots)>>))
  /\ UNCHANGED <<m_slots, connected, intact>>

\* Mutant: the iterator is an index, which connect() and disconnect() shift.
SlotReturnsByIndex ==
  LET walk == Last(walks)
      next == Len(walk.called) + 1
  IN  /\ intact
      /\ walks # <<>>
      /\ walks' = IF next > Len(m_slots) THEN Front(walks)
                  ELSE Append(Front(walks),
                              Walk(m_slots[next], walk.start,
                                   Append(walk.called, m_slots[next])))
      /\ UNCHANGED <<m_slots, connected, fires, intact>>

(* The slot called by the innermost walk returns: the iterator moves on,   *)
(* and at the end of the list fire() returns.                              *)
SlotReturns ==
  LET walk == Last(walks)
      next == IndexOf(m_slots, walk.at) + 1
  IN  /\ intact
      /\ walks # <<>>
      /\ walks' = IF next > Len(m_slots) THEN Front(walks)
                  ELSE Append(Front(walks),
                              Walk(m_slots[next], walk.start,
                                   Append(walk.called, m_slots[next])))
      /\ UNCHANGED <<m_slots, connected, fires, intact>>

Next ==
  \/ connect \/ disconnectAll \/ fire \/ SlotReturns
  \/ \E id \in SlotIds : disconnect(id)

Spec == Init /\ [][Next]_vars

-----------------------------------------------------------------------------
(***************************************************************************)
(* Properties.                                                             *)
(***************************************************************************)

(* Type correctness; a slot is in the list once, and the iterator of every  *)
(* walk is in the list.                                                    *)
TypeOK ==
  /\ m_slots \in Seq(SlotIds) /\ IsInjective(m_slots)
  /\ connected \in 0 .. MaxSlots
  /\ walks \in Seq([at : SlotIds, start : Seq(SlotIds), called : Seq(SlotIds)])
  /\ fires \in 0 .. MaxFires
  /\ intact \in BOOLEAN
  /\ intact => Calling \subseteq ToSet(m_slots)

(* The slots of a list behind one of them. *)
After(seq, id) == SubSeq(seq, IndexOf(seq, id) + 1, Len(seq))

(* seq goes through slots of the list in the list's order, each at most     *)
(* once.                                                                   *)
InOrderOf(seq, list) ==
  \A i, j \in DOMAIN seq :
    i < j => \E k, l \in DOMAIN list : k < l /\ list[k] = seq[i] /\ list[l] = seq[j]

(* A walk calls what was in the list when fire() was called, in its order,  *)
(* but for what is disconnected before its turn: slots connected by a slot  *)
(* are not called by this walk, and no slot is called twice or skipped,     *)
(* whatever the slots called so far, and the walks inside them, have        *)
(* connected and disconnected.                                             *)
WalkVisitsStart ==
  intact =>
    \A w \in DOMAIN walks :
      LET visits == walks[w].called \o After(m_slots, walks[w].at)
      IN  /\ InOrderOf(visits, walks[w].start)
          /\ ToSet(visits) \subseteq ToSet(walks[w].start)
          /\ \A s \in ToSet(walks[w].start) :
               s \in ToSet(visits) \/ ~Contains(m_slots, s)
=============================================================================
