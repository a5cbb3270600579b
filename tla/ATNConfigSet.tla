---------------------------- MODULE ATNConfigSet ----------------------------
(***************************************************************************)
(* atn/ATNConfigSet.ts: the set computeTargetState fills with              *)
(* configurations (atn/ATNConfig.ts), and clone(true), the read-only copy  *)
(* that a DFA state keeps.  A configuration is an object: add() puts the   *)
(* object itself into the set, and changes it when another one is merged   *)
(* into it; a read-only set holds the same objects.                        *)
(*                                                                         *)
(* A configuration is what Configurations says.  What fills a set is first *)
(* what the closure reaches, all of it made anew, then, for EOF or in the  *)
(* full context, those of the state come from that were at a stop state,   *)
(* the objects of that state's set (skippedStopStates).                    *)
(***************************************************************************)
EXTENDS Integers, Sequences, FiniteSets
Configs == INSTANCE Configurations

CONSTANTS
  Reachable,      \* configurations the closure may reach, in a local and in a full context
  StopStates,
  MaxObjects,     \* bounds the configurations made
  MaxStates       \* bounds the DFA states made

VARIABLES
  full,       \* whether the context is full
  heap,       \* the objects, numbered, with the configurations they are now
  set,        \* [configs, merged, unmerged, uniqueAlt, hasSem, dips]: the set being filled;
              \* `merged' are the objects found under their key, state and alternative
  phase,      \* whether the closure or the skipped configurations are being added
  states,     \* the sets of the DFA states: lists of objects
  \* history
  added,      \* all that was added to the set
  snapshots   \* the configurations of the DFA states when they were made

vars == <<full, heap, set, phase, states, added, snapshots>>

Sim == [full |-> full]
Objects(list) == {list[i] : i \in DOMAIN list}
EmptySet == [configs |-> <<>>, merged |-> {}, unmerged |-> <<>>,
             uniqueAlt |-> Configs!InvalidAlt, hasSem |-> FALSE, dips |-> FALSE]

SameKey(c, d) == c.state = d.state /\ c.alt = d.alt

(* A mutant of canMerge that does not look at the predicates. *)
SameLocation(c, d) == SameKey(c, d)

CanMerge(c, d) == SameKey(c, d) /\ c.sem = d.sem

(* What becomes of a configuration another is merged into. *)
MergedWith(c, d) ==
  [c EXCEPT !.outer = @ \/ d.outer, !.suppressed = @ \/ d.suppressed,
            !.context = Configs!Join(Sim, @ \cup d.context)]

(* add: [heap, set] with the object e added, or merged into the one under  *)
(* its key, or into one of those that found their key taken.               *)
Add(h, s, e) ==
  LET c == h[e]
      keyed   == {o \in s.merged : SameKey(h[o], c)}
      holders == {o \in keyed : CanMerge(c, h[o])} \cup
                 {o \in Objects(s.unmerged) : CanMerge(c, h[o])}
      holder  == CHOOSE o \in holders : TRUE
      configs == Append(s.configs, e)
  IN IF holders # {}
     THEN [heap |-> [h EXCEPT ![holder] = MergedWith(@, c)],
           set  |-> [s EXCEPT !.dips = @ \/ c.outer]]
     ELSE [heap |-> h,
           set  |-> [configs   |-> configs,
                     merged    |-> IF keyed = {} THEN s.merged \cup {e} ELSE s.merged,
                     unmerged  |-> IF keyed = {} THEN s.unmerged ELSE Append(s.unmerged, e),
                     uniqueAlt |-> IF Len(configs) = 1 THEN c.alt
                                   ELSE IF s.uniqueAlt # c.alt THEN Configs!InvalidAlt
                                   ELSE s.uniqueAlt,
                     hasSem    |-> s.hasSem \/ c.sem # {},
                     dips      |-> s.dips \/ c.outer]]

(* addAll, of those of the objects that are not passed over, in their order *)
AddAll(to, objects, chosen) ==
  LET upTo[i \in 0 .. Len(objects)] ==
        IF i = 0 THEN to
        ELSE IF objects[i] \in chosen THEN Add(upTo[i - 1].heap, upTo[i - 1].set, objects[i])
        ELSE upTo[i - 1]
  IN upTo[Len(objects)]

Contents(h, objects) == {h[o] : o \in objects}

-----------------------------------------------------------------------------
(* A mutant of ClosureAdds that goes on after the skipped ones. *)
AddsAlways == phase \in {"closure", "skipped"}

ClosureAdds == phase = "closure"

Init ==
  /\ full \in BOOLEAN
  /\ heap = <<>> /\ set = EmptySet /\ phase = "closure" /\ states = <<>>
  /\ added = {} /\ snapshots = <<>>

(* closure: a configuration made anew *)
Reach(c) ==
  /\ ClosureAdds
  /\ Len(heap) < MaxObjects
  /\ \E to \in {Add(Append(heap, c), set, Len(heap) + 1)} : heap' = to.heap /\ set' = to.set
  /\ added' = added \cup {c}
  /\ UNCHANGED <<full, phase, states, snapshots>>

AtStop(o) == heap[o].state \in StopStates

(* Where the closure ends.  For EOF only the configurations at a stop      *)
(* state remain.  Skipped are those of the state come from that were at    *)
(* one, for EOF, or if they are not in the outer context, which is full;   *)
(* then they are added only if the closure has not come to a stop state.   *)
AddSkipped(isEOF) ==
  LET stopped == {o \in Objects(set.configs) : AtStop(o)}
      reach   == IF isEOF /\ stopped # Objects(set.configs)
                 THEN AddAll([heap |-> heap, set |-> EmptySet], set.configs, stopped)
                 ELSE [heap |-> heap, set |-> set]
      from    == states[Len(states)]
      skipped == {o \in Objects(from) : AtStop(o) /\ (isEOF \/ ~heap[o].outer)}
      addable == IF full /\ stopped # {} THEN {} ELSE skipped
  IN /\ phase = "closure"
     /\ states # <<>>
     /\ isEOF \/ full
     /\ \E to \in {AddAll(reach, from, addable)} : heap' = to.heap /\ set' = to.set
     /\ phase' = "skipped"
     /\ added' = {c \in added : isEOF => c.state \in StopStates} \cup Contents(heap, addable)
     /\ UNCHANGED <<full, states, snapshots>>

(* clone(true), for a new DFA state; computeTargetState goes on from it. *)
Clone ==
  /\ set.configs # <<>>
  /\ Len(states) < MaxStates
  /\ states' = Append(states, set.configs)
  /\ snapshots' = Append(snapshots, Contents(heap, Objects(set.configs)))
  /\ set' = EmptySet /\ phase' = "closure" /\ added' = {}
  /\ UNCHANGED <<full, heap>>

Next ==
  \/ \E c \in Reachable[full] : Reach(c)
  \/ \E isEOF \in BOOLEAN : AddSkipped(isEOF)
  \/ Clone

Spec == Init /\ [][Next]_vars

(* The closure makes configurations, whose contexts are joined: below a    *)
(* local context that ends in EMPTY_LOCAL nothing else is kept.            *)
IsConfiguration(c) ==
  /\ c = [state |-> c.state, alt |-> c.alt, context |-> c.context, sem |-> c.sem,
          outer |-> c.outer, suppressed |-> c.suppressed]
  /\ c.context \subseteq Seq(Nat)
  /\ c.outer \in BOOLEAN /\ c.suppressed \in BOOLEAN
ReachableAreConfigurations ==
  \A f \in BOOLEAN : \A c \in Reachable[f] :
    IsConfiguration(c) /\ Configs!Join([full |-> f], c.context) = c.context

-----------------------------------------------------------------------------
(* However often configurations were merged in place, and whichever came   *)
(* first, the set is the merge of all that was added, no two of it can be  *)
(* merged any more, and what it says of itself (uniqueAlt,                 *)
(* hasSemanticContext, dipsIntoOuterContext) is so (add,                   *)
(* updatePropertiesForAddedConfig, updatePropertiesForMergedConfig).       *)
SetsAreMerged ==
  LET contents == Contents(heap, Objects(set.configs))
  IN /\ contents = Configs!Merge(Sim, added)
     /\ Cardinality(contents) = Len(set.configs)
     /\ set.uniqueAlt = IF Cardinality(Configs!Alts(added)) = 1
                        THEN CHOOSE a \in Configs!Alts(added) : TRUE ELSE Configs!InvalidAlt
     /\ set.hasSem = \E c \in added : c.sem # {}
     /\ set.dips = \E c \in added : c.outer

(* The configurations of a DFA state stay what they were, although later   *)
(* sets hold some of the same objects, and merge into the objects they     *)
(* hold (clone, add, computeTargetState).                                  *)
StatesNeverChange ==
  \A i \in DOMAIN states : Contents(heap, Objects(states[i])) = snapshots[i]
=============================================================================
