----------------------------- MODULE SwitchLabels -----------------------------
(***************************************************************************)
(* The case labels of switch statements: parse_case and                    *)
(* parse_default_case put a label into the scope they stand in, and at the *)
(* end of a switch symbol_table_lookup_switch_case_labels threads the      *)
(* labels below the switch's scope onto a linked list, which               *)
(* gen_asm_switch turns into a chain of comparisons.                       *)
(*                                                                         *)
(* The links are fields of the labels themselves, so every lookup writes   *)
(* into memory that the lists of inner switches use as well.               *)
(*                                                                         *)
(* Abstracted: everything that is neither a scope nor a label; the value   *)
(* of a label is a member of a small set.                                  *)
(***************************************************************************)
EXTENDS Integers, Sequences, SequencesExt

CONSTANTS
  Values,     \* the values of case labels and of the switch expression
  Default,    \* the "value" of the label of default:
  MaxScopes,  \* bound: scopes of the function
  MaxLabels   \* bound: labels of the function

ASSUME SwitchAssumption ==
  /\ Default \notin Values
  /\ MaxScopes \in Nat /\ MaxLabels \in Nat

VARIABLES
  scopes,       \* scopes[s] has its parent and is_switch_scope; 1 is the function's
  cur,          \* the scope being parsed, 0 after the function
  labels,       \* labels[id] has the scope it was inserted in and its value
  next,         \* next[id] is ValueLabel.next
  switchCases   \* ASTNode.switch_cases of the switches parsed, by switch scope

vars == <<scopes, cur, labels, next, switchCases>>

Null == 0
Unset == -1   \* ValueLabel.next before a lookup wrote it

-----------------------------------------------------------------------------
(* symbol_table_lookup_switch_case_labels *)

\* The labels of scope s; later ones have greater numbers.
At(s) == {l \in 1..Len(labels) : labels[l].scope = s}

\* The label of s behind label l, the first one for 0; NULL behind the last.
After(s, l) ==
  LET later == {k \in At(s) : k > l}
  IN IF later = {} THEN Null ELSE Min(later)

\* The next of label 0, which is on the lookup's stack, and of all others.
Memories == [0..Len(labels) -> Int]

\* The loop over the labels of s: they hang behind label, the last before NULL.
Hang(s, label, mem) ==
  [l \in DOMAIN mem |-> IF l = label THEN After(s, 0)
                        ELSE IF l \in At(s) THEN After(s, l)
                        ELSE mem[l]]

\* cur_label behind that loop.
CurLabel(s, label) == IF At(s) = {} THEN label ELSE Max(At(s))

Children(s) == {c \in 1..Len(scopes) : scopes[c].parent = s}

EnteredMutant(c, s) == scopes[c].parent = s

\* The recursion goes into the children that are no switch scopes.
Entered(c, s) == scopes[c].parent = s /\ ~scopes[c].isSwitch

(***************************************************************************)
(* The loop over the children of s, from number c on: each child's labels  *)
(* hang behind label, and its own children, which have greater numbers,    *)
(* behind its last one.  cur_label is a parameter, so what a child         *)
(* appended is not known to its siblings.                                  *)
(***************************************************************************)
Find[c \in 1..(Len(scopes) + 1)] ==
  [s \in 1..Len(scopes) |-> [label \in 0..Len(labels) |-> [mem \in Memories |->
     IF c > Len(scopes) THEN mem
     ELSE Find[c + 1][s][label]
            [IF Entered(c, s)
             THEN Find[c + 1][c][CurLabel(c, label)][Hang(c, label, mem)]
             ELSE mem]]]]

\* Memory when the lookup starts.
Links == [l \in 0..Len(labels) |-> IF l = 0 THEN Unset ELSE next[l]]

LinkedFromMutant(s) ==
  LET above == scopes[s].parent
  IN Find[above + 1][above][CurLabel(above, 0)][Hang(above, 0, Links)]

\* Label 0 becomes the head of the list.
LinkedFrom(s) == Find[s + 1][s][CurLabel(s, 0)][Hang(s, 0, Links)]

-----------------------------------------------------------------------------
(* Parsing *)

Init ==
  /\ scopes = << [parent |-> 0, isSwitch |-> FALSE] >>
  /\ cur = 1
  /\ labels = << >>
  /\ next = << >>
  /\ switchCases = << >>

NewScope(isSwitch) ==
  /\ Len(scopes) < MaxScopes
  /\ scopes' = Append(scopes, [parent |-> cur, isSwitch |-> isSwitch])
  /\ cur' = Len(scopes) + 1
  /\ UNCHANGED <<labels, next, switchCases>>

InBlock == cur # 0 /\ ~scopes[cur].isSwitch

\* A compound statement or a for statement; a switch has one as its body.
OpenBlock ==
  /\ cur # 0
  /\ scopes[cur].isSwitch => Children(cur) = {}
  /\ NewScope(FALSE)

OpenSwitch == InBlock /\ NewScope(TRUE)

CloseBlock ==
  /\ InBlock
  /\ cur' = scopes[cur].parent
  /\ UNCHANGED <<scopes, labels, next, switchCases>>

\* The innermost switch scope around s, 0 when there is none.
SwitchOf[s \in 0..Len(scopes)] ==
  IF s = 0 THEN 0
  ELSE IF scopes[s].isSwitch THEN s ELSE SwitchOf[scopes[s].parent]

OwnLabels(sw) == {l \in 1..Len(labels) : SwitchOf[labels[l].scope] = sw}

InsertLabelMutant(value) ==
  /\ InBlock
  /\ SwitchOf[cur] # 0
  /\ Len(labels) < MaxLabels
  /\ labels' = Append(labels, [scope |-> cur, value |-> value])
  /\ UNCHANGED <<scopes, cur, next, switchCases>>

\* C: a label belongs to the innermost switch, which has each value once.
InsertLabel(value) ==
  /\ InBlock
  /\ SwitchOf[cur] # 0
  /\ \A l \in OwnLabels(SwitchOf[cur]) : labels[l].value # value
  /\ Len(labels) < MaxLabels
  /\ labels' = Append(labels, [scope |-> cur, value |-> value])
  /\ next' = Append(next, Unset)
  /\ UNCHANGED <<scopes, cur, switchCases>>

Case == \E v \in Values : InsertLabel(v)

DefaultCase == InsertLabel(Default)

CloseSwitch ==
  /\ cur # 0 /\ scopes[cur].isSwitch
  /\ Children(cur) # {}
  /\ LET mem == LinkedFrom(cur)
     IN /\ next' = [l \in 1..Len(labels) |-> mem[l]]
        /\ switchCases' = Append(switchCases, [scope |-> cur, first |-> mem[0]])
  /\ cur' = scopes[cur].parent
  /\ UNCHANGED <<scopes, labels>>

Next ==
  \/ OpenBlock
  \/ OpenSwitch
  \/ Case
  \/ DefaultCase
  \/ CloseBlock
  \/ CloseSwitch

Spec == Init /\ [][Next]_vars

-----------------------------------------------------------------------------
(* gen_asm_switch *)

\* case_labels after n rounds of the loop.
Walk(first) ==
  LET case_labels[n \in 0..Len(labels)] ==
        IF n = 0 THEN first
        ELSE IF case_labels[n - 1] \in 1..Len(labels) THEN next[case_labels[n - 1]]
        ELSE case_labels[n - 1]
  IN case_labels

\* The labels the loop has seen when it stops.
ListFrom(first) ==
  LET stops == {n \in 0..Len(labels) : Walk(first)[n] \notin 1..Len(labels)}
      rounds == IF stops = {} THEN Len(labels) ELSE Min(stops)
  IN [i \in 1..rounds |-> Walk(first)[i - 1]]

\* It stops at NULL.
Ends(first) == Walk(first)[Len(labels)] = Null

Listed(switch) == ToSet(ListFrom(switch.first))

DispatchMutant(switch, v) ==
  LET list == ListFrom(switch.first)
      hits == {i \in DOMAIN list : labels[list[i]].value \in {v, Default}}
  IN IF hits # {} THEN list[Min(hits)] ELSE Null

\* The label the comparisons jump to, NULL for the end of the switch: the
\* first label with the value, or else the default label.
Dispatch(switch, v) ==
  LET list == ListFrom(switch.first)
      hits == {i \in DOMAIN list : labels[list[i]].value = v}
      defaults == {i \in DOMAIN list : labels[list[i]].value = Default}
  IN IF hits # {} THEN list[Min(hits)]
     ELSE IF defaults # {} THEN list[Max(defaults)] ELSE Null

-----------------------------------------------------------------------------
(* Properties *)

InBody(l, sw) == scopes[labels[l].scope].parent = sw.scope

Switches == {switchCases[i] : i \in 1..Len(switchCases)}

\* Every variable holds values of its type.
TypeOK ==
  /\ scopes \in Seq([parent : 0..MaxScopes, isSwitch : BOOLEAN])
  /\ cur \in 0..Len(scopes)
  /\ labels \in Seq([scope : 1..Len(scopes), value : Values \union {Default}])
  /\ next \in Seq({Unset} \union (0..Len(labels)))
  /\ Len(next) = Len(labels)
  /\ \A sw \in Switches : sw.scope \in 1..Len(scopes) /\ sw.first \in 0..Len(labels)

(***************************************************************************)
(* gen_asm_switch transfers control where C does when all labels of the    *)
(* switch stand directly in its body, for every value of the expression,   *)
(* however other switches and blocks are nested in it or around it: to the *)
(* label with the value, or else to its default, or else to the end.       *)
(***************************************************************************)
DispatchesCorrectly ==
  \A sw \in Switches, v \in Values :
    LET own == OwnLabels(sw.scope)
        target == Dispatch(sw, v)
    IN (\A l \in own : InBody(l, sw)) =>
       IF \E l \in own : labels[l].value = v
       THEN target \in own /\ labels[target].value = v
       ELSE IF \E l \in own : labels[l].value = Default
       THEN target \in own /\ labels[target].value = Default
       ELSE target = Null

(***************************************************************************)
(* "Find all lower scope value labels": the list of a switch holds all of  *)
(* its labels.                                                             *)
(***************************************************************************)
AllLabelsListed ==
  \A sw \in Switches : OwnLabels(sw.scope) \subseteq Listed(sw)

(***************************************************************************)
(* "except if in another switch": the list of a switch ends, and holds     *)
(* only labels of that switch; the labels directly in the body are on it   *)
(* whatever blocks and inner switches stand between them.                  *)
(***************************************************************************)
ListsOwnLabels ==
  \A sw \in Switches :
    /\ Ends(sw.first)
    /\ Listed(sw) \subseteq OwnLabels(sw.scope)
    /\ \A l \in OwnLabels(sw.scope) : InBody(l, sw) => l \in Listed(sw)

(***************************************************************************)
(* ASTNode.switch_cases is read long after it was set: looking up the      *)
(* labels of an enclosing or a later switch never changes the list of a    *)
(* switch that is already parsed.                                          *)
(***************************************************************************)
ListsKept ==
  [][\A i \in 1..Len(switchCases) :
       ListFrom(switchCases[i].first)' = ListFrom(switchCases[i].first)]_vars

=============================================================================
