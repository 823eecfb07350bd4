------------------------------ MODULE Spanning ------------------------------
(***************************************************************************)
(* The spanning-tree verdict of moonlan/stp.py.  A switch is asked for     *)
(* dot1dStp* and judged by its own answer, then by what its neighbours     *)
(* say of it, and the network is called one tree, several, or none.        *)
(*                                                                         *)
(* The answers are those of a network that is known here: which tree each  *)
(* switch is in, and how its agent speaks of it.  From inside one device a *)
(* root and a switch with its tree off give the same answer, and some      *)
(* agents answer with zeros, or name no root, whatever the switch does.    *)
(***************************************************************************)
EXTENDS Naturals, FiniteSets

CONSTANTS
    Bridges,     \* the switches that are polled
    Outside      \* the root of a tree whose root is polled by nobody

VARIABLES
    tree,        \* the root of the tree a switch is in, or Off
    answer,      \* what its agent answers
    verdict      \* what network_verdict says of the last poll, or Unjudged

spanningVars == <<tree, answer, verdict>>

Off == "off"
NoRoot == "no root"       \* empty, or the zero address

\* what is assumed of the constants
SpanningAssumption ==
    /\ IsFiniteSet(Bridges) /\ Bridges # {} /\ Outside \notin Bridges
    /\ {Off, NoRoot} \cap (Bridges \cup {Outside}) = {}

Unjudged == [kind |-> "unjudged", groups |-> {}]

\* an address stands for all of its switch's: own_macs
Answers == [supported : BOOLEAN, root : Bridges \cup {Outside, NoRoot},
            far : BOOLEAN,          \* root_cost > 0
            changes : BOOLEAN,      \* topology changes were counted, or it
                                    \* converged well after it started
            ports : {"active", "disabled"}]

\* what an agent may say, the way each kind of agent does
Plain(b, t) ==
    {a \in Answers :
        /\ a.supported /\ a.ports = "active"
        /\ a.root = (IF t = Off THEN b ELSE t)
        /\ a.far = (t \notin {Off, b})}
Zeros ==        \* runs a tree and reports none of it
    {[supported |-> TRUE, root |-> NoRoot, far |-> FALSE, changes |-> FALSE,
      ports |-> "disabled"]}
Rootless ==     \* has the port table and not the scalars
    {[supported |-> TRUE, root |-> NoRoot, far |-> FALSE, changes |-> TRUE,
      ports |-> "active"]}
Mute ==
    {[supported |-> FALSE, root |-> NoRoot, far |-> FALSE, changes |-> FALSE,
      ports |-> "disabled"]}
SaysOf(b, t) == Plain(b, t) \cup Zeros \cup Rootless \cup Mute

Trees == {t \in [Bridges -> Bridges \cup {Outside, Off}] :
             \A b \in Bridges : t[b] \in Bridges => t[t[b]] = t[b]}

Init ==
    /\ tree \in Trees
    /\ answer \in {a \in [Bridges -> UNION {SaysOf(b, tree[b]) : b \in Bridges}] :
                      \A b \in Bridges : a[b] \in SaysOf(b, tree[b])}
    /\ verdict = Unjudged

----------------------------------------------------------------------------
(* One switch *)

ReportsNothing(a) == a.root = NoRoot /\ ~a.changes /\ a.ports = "disabled"

Foreign(b) == answer[b].root \notin {NoRoot, b} /\ answer[b].far

\* judge: an accepted root proves a tree; zeros, disabled ports and an absent
\* root prove nothing; then the history
Operating(b) ==
    /\ answer[b].supported
    /\ \/ Foreign(b)
       \/ /\ ~ReportsNothing(answer[b])
          /\ answer[b].ports = "active"
          /\ answer[b].root # NoRoot
          /\ answer[b].changes

----------------------------------------------------------------------------
(* The network *)

\* judge_network: neighbours that operate follow this switch's own address
ConfirmedRoot(b) ==
    /\ Cardinality(Bridges) >= 2 /\ ~Operating(b)
    /\ \E w \in Bridges \ {b} : Operating(w) /\ answer[w].root = b

InTree(b) == Operating(b) \/ ConfirmedRoot(b)

\* mutant: a confirmed root keeps what it says of itself
RootSaid(b) == answer[b].root
\* effective_root_mac
EffectiveRoot(b) == IF ConfirmedRoot(b) THEN b ELSE answer[b].root

\* network_verdict: the switches that operate, grouped by their root; one that
\* names no root is in no group
Groups ==
    {{b \in Bridges : InTree(b) /\ EffectiveRoot(b) = r} :
        r \in {EffectiveRoot(b) : b \in {c \in Bridges : InTree(c)}}}

Judged ==
    /\ verdict = Unjudged
    /\ verdict' = [kind |-> IF Groups = {} THEN "not_operating"
                            ELSE IF Cardinality(Groups) = 1 THEN "single"
                            ELSE "fragmented",
                   groups |-> Groups]
    /\ UNCHANGED <<tree, answer>>

\* the network has changed by the next poll, at one switch
SwitchChanges ==
    /\ verdict # Unjudged /\ verdict' = Unjudged
    /\ \E b \in Bridges, t \in Bridges \cup {Outside, Off} :
          /\ tree' = [tree EXCEPT ![b] = t] /\ tree' \in Trees
          /\ \E a \in SaysOf(b, t) : answer' = [answer EXCEPT ![b] = a]

Next == Judged \/ SwitchChanges

Spec == Init /\ [][Next]_spanningVars

----------------------------------------------------------------------------
(* Properties *)

Speaks(b) == answer[b] \in Plain(b, tree[b])

\* The verdict calls the network fragmented only if two switches really are
\* in different trees, or one with its tree off still tells of an old one; no
\* switch of a tree is put with one of another; and where a switch below the
\* root speaks, it and its root are seen, in one group, whatever the root's
\* own agent says.
VerdictIsTrue ==
    verdict # Unjudged =>
        /\ verdict.kind = "fragmented" =>
              \/ \E b, c \in Bridges : /\ tree[b] # tree[c]
                                       /\ Off \notin {tree[b], tree[c]}
              \/ \E b \in Bridges : tree[b] = Off /\ answer[b].changes
        /\ \A g \in verdict.groups : \A b, c \in g : tree[b] = tree[c]
        /\ \A b \in Bridges : Speaks(b) /\ tree[b] \notin {Off, b} =>
              \E g \in verdict.groups : {b, tree[b]} \ {Outside} \subseteq g
=============================================================================
