------------------------------ MODULE AclMatch ------------------------------
(***************************************************************************)
(* MatchConditions.Matches of auth_server/authz/acl.go for one ACL entry   *)
(* and one request.  A pattern with label placeholders is tried with every *)
(* combination of the request's labels: a goroutine (IterWithContext,      *)
(* iterate) sends the combinations over an unbuffered channel while the    *)
(* matcher tries them, and is cancelled when one matches.  The goroutine   *)
(* of one field may still run when the next field is matched.              *)
(*                                                                         *)
(* Go slices are modelled as they are: a slice is a backing array and a    *)
(* length, and append writes in place where the array has room, so slices  *)
(* of different depths of the recursion share arrays.  What a pattern      *)
(* matches is data: the label combinations that make it match.             *)
(***************************************************************************)
EXTENDS Naturals, Sequences, FiniteSets

CONSTANTS
    Labels,     \* the request's labels: placeholder -> sequence of values
    Conditions, \* match conditions: [patterns, ip, labels]
    None        \* no slice; an array's unused room

ASSUME LabelsAssumption ==
    /\ IsFiniteSet(DOMAIN Labels)
    /\ \A p \in DOMAIN Labels : Labels[p] \in Seq(Nat)

\* The fields of MatchConditions with a pattern, in the order of Matches.
Fields == <<"account", "type", "name", "service">>
FieldNames == {Fields[i] : i \in DOMAIN Fields}

\* A pattern: does it match as it stands, the placeholders that occur in it, and
\* the combinations of labels that make it match.
ASSUME ConditionsAssumption ==
    \A c \in Conditions :
        /\ \A f \in FieldNames : c.patterns[f].plain \in BOOLEAN /\ c.patterns[f].uses \subseteq DOMAIN Labels
        /\ c.ip \in {"any", "own", "other"}

ASSUME NoneAssumption == None \notin [arr : Nat, len : Nat]

VARIABLES
    mc,     \* the match conditions of the entry
    at,     \* the field Matches is at, an index of Fields
    pc,     \* where matchStringWithLabelPermutations is
    got,    \* the slice the matcher received last
    prod,   \* per field: its goroutine
    mem,    \* per field: the arrays its goroutine allocated
    result  \* what Matches returns

vars == <<mc, at, pc, got, prod, mem, result>>

----------------------------------------------------------------------------
(* Slices *)

EmptySlice == [arr |-> 0, len |-> 0]
Cap(m, s) == IF s.arr = 0 THEN 0 ELSE Len(m[s.arr])
Elements(m, s) == IF s.len = 0 THEN <<>> ELSE SubSeq(m[s.arr], 1, s.len)
Room(n) == [i \in 1 .. n |-> None]

\* A new array of the given capacity that holds seq.
Alloc(m, seq, capacity) ==
    [mem |-> Append(m, seq \o Room(capacity - Len(seq))),
     slice |-> [arr |-> Len(m) + 1, len |-> Len(seq)]]

\* append(s, x): in place if there is room, else in an array of twice the size.
AppendTo(m, s, x) ==
    IF s.len < Cap(m, s)
    THEN [mem |-> [m EXCEPT ![s.arr][s.len + 1] = x], slice |-> [s EXCEPT !.len = @ + 1]]
    ELSE Alloc(m, Append(Elements(m, s), x), IF s.len = 0 THEN 1 ELSE 2 * s.len)

\* append(append([]any{}, s...), x): always an array of its own.
AppendShared(m, s, x) == AppendTo(m, s, x)
AppendCopy(m, s, x) == Alloc(m, Append(Elements(m, s), x), s.len + 1)

----------------------------------------------------------------------------

NoGoroutine == [state |-> "none", order |-> <<>>, stack |-> <<>>, out |-> None,
                cancelled |-> FALSE]

Init ==
    /\ mc \in Conditions
    /\ at = 1 /\ pc = "basic" /\ got = None /\ result = FALSE
    /\ prod = [f \in FieldNames |-> NoGoroutine]
    /\ mem = [f \in FieldNames |-> <<>>]

F == Fields[at]
Pattern == mc.patterns[F]

\* The pattern of a field matched: the next field, or the other conditions.
MatchIP(ipp) == ipp # "other"
MatchLabels(ml) ==
    \A l \in DOMAIN ml : \E i \in DOMAIN Labels[l] : Labels[l][i] \in ml[l]

FieldMatched ==
    IF at < Len(Fields)
    THEN at' = at + 1 /\ pc' = "basic" /\ UNCHANGED result
    ELSE /\ pc' = "done" /\ UNCHANGED at
         /\ result' = (MatchIP(mc.ip) /\ MatchLabels(mc.labels))
FieldFailed == pc' = "done" /\ UNCHANGED <<at, result>>

----------------------------------------------------------------------------
(* matchStringWithLabelPermutations *)

\* The label sets in the order of an iteration over a Go map: any order.
Orders(S) == {o \in [1 .. Cardinality(S) -> S] : \A i, j \in DOMAIN o : o[i] = o[j] => i = j}

\* The pattern as it stands, then the placeholders that occur in it.
BasicMatch ==
    /\ pc = "basic" /\ Pattern.plain
    /\ FieldMatched
    /\ UNCHANGED <<mc, got, prod, mem>>

NoPlaceholder ==
    /\ pc = "basic" /\ ~Pattern.plain /\ Pattern.uses = {}
    /\ FieldFailed
    /\ UNCHANGED <<mc, got, prod, mem>>

\* IterWithContext starts the goroutine: iterate over the first label set.
StartIterating ==
    /\ pc = "basic" /\ ~Pattern.plain /\ Pattern.uses # {}
    /\ \E o \in Orders(Pattern.uses) :
         prod' = [prod EXCEPT ![F] =
                    [NoGoroutine EXCEPT !.state = "run", !.order = o,
                                        !.stack = <<[i |-> 1, result |-> EmptySlice]>>]]
    /\ pc' = "receive"
    /\ UNCHANGED <<mc, at, got, mem, result>>

\* The combination that was received is read and tried.
Combination == {Elements(mem[F], got)[i] : i \in 1 .. got.len}

CancelNot(p) == p
Cancel(p) == [p EXCEPT !.cancelled = TRUE]

TryMatches ==
    /\ pc = "try" /\ Combination \in Pattern.accepts
    /\ prod' = [prod EXCEPT ![F] = Cancel(@)]
    /\ got' = None
    /\ FieldMatched
    /\ UNCHANGED <<mc, mem>>

TryFails ==
    /\ pc = "try" /\ Combination \notin Pattern.accepts
    /\ pc' = "receive"
    /\ got' = None
    /\ UNCHANGED <<mc, at, prod, mem, result>>

\* The channel is closed: no combination matched.
ChannelClosed ==
    /\ pc = "receive" /\ prod[F].state = "closed"
    /\ prod' = [prod EXCEPT ![F] = Cancel(@)]
    /\ FieldFailed
    /\ UNCHANGED <<mc, got, mem>>

Matcher == BasicMatch \/ NoPlaceholder \/ StartIterating \/ TryMatches \/ TryFails
             \/ ChannelClosed

----------------------------------------------------------------------------
(* iterate: the goroutine of field f, one stack frame per level *)

Depth(f) == Len(prod[f].stack)
Frame(f) == prod[f].stack[Depth(f)]
Running(f) == prod[f].state = "run" /\ Depth(f) > 0
TopLevel(f) == Labels[prod[f].order[Depth(f)]]
LeafEarly(f) == Depth(f) + 1 >= Len(prod[f].order)
Leaf(f) == Depth(f) = Len(prod[f].order)
HasNext(f) == Frame(f).i <= Len(TopLevel(f))
Element(f) == <<prod[f].order[Depth(f)], TopLevel(f)[Frame(f).i]>>

Pop(f) == prod' = [prod EXCEPT ![f].stack = SubSeq(@, 1, Len(@) - 1), ![f].out = None]
Advanced(f) == [prod[f].stack EXCEPT ![Depth(f)].i = @ + 1]

\* The innermost loop's select evaluates what it sends ...
Prepare(f) ==
    /\ Running(f) /\ Leaf(f) /\ HasNext(f) /\ prod[f].out = None
    /\ LET a == AppendCopy(mem[f], Frame(f).result, Element(f)) IN
         mem' = [mem EXCEPT ![f] = a.mem] /\ prod' = [prod EXCEPT ![f].out = a.slice]
    /\ UNCHANGED <<mc, at, pc, got, result>>

\* ... and sends it if the matcher receives ...
Send(f) ==
    /\ Running(f) /\ prod[f].out # None
    /\ pc = "receive" /\ F = f
    /\ got' = prod[f].out /\ pc' = "try"
    /\ prod' = [prod EXCEPT ![f].out = None, ![f].stack = Advanced(f)]
    /\ UNCHANGED <<mc, at, mem, result>>

\* ... or returns if the context is cancelled.
LeafCancelled(f) ==
    /\ Running(f) /\ prod[f].out # None /\ prod[f].cancelled
    /\ Pop(f)
    /\ UNCHANGED <<mc, at, pc, got, mem, result>>

\* An outer loop descends, unless the context is cancelled.
DescendAccumulating(f) ==
    /\ Running(f) /\ ~Leaf(f) /\ HasNext(f) /\ ~prod[f].cancelled
    /\ LET a == AppendTo(mem[f], Frame(f).result, Element(f)) IN
         /\ mem' = [mem EXCEPT ![f] = a.mem]
         /\ prod' = [prod EXCEPT ![f].stack =
                       Append([Advanced(f) EXCEPT ![Depth(f)].result = a.slice],
                              [i |-> 1, result |-> a.slice])]
    /\ UNCHANGED <<mc, at, pc, got, result>>
Descend(f) ==
    /\ Running(f) /\ ~Leaf(f) /\ HasNext(f) /\ ~prod[f].cancelled
    /\ LET a == AppendTo(mem[f], Frame(f).result, Element(f)) IN
         /\ mem' = [mem EXCEPT ![f] = a.mem]
         /\ prod' = [prod EXCEPT ![f].stack =
                       Append(Advanced(f), [i |-> 1, result |-> a.slice])]
    /\ UNCHANGED <<mc, at, pc, got, result>>

LoopEnds(f) ==
    /\ Running(f)
    /\ ~HasNext(f) \/ (~Leaf(f) /\ prod[f].cancelled)
    /\ Pop(f)
    /\ UNCHANGED <<mc, at, pc, got, mem, result>>

\* The deferred close.
Close(f) ==
    /\ prod[f].state = "run" /\ Depth(f) = 0
    /\ prod' = [prod EXCEPT ![f].state = "closed"]
    /\ UNCHANGED <<mc, at, pc, got, mem, result>>

Goroutine(f) ==
    Prepare(f) \/ Send(f) \/ LeafCancelled(f) \/ Descend(f) \/ LoopEnds(f) \/ Close(f)

Next == Matcher \/ \E f \in FieldNames : Goroutine(f)

\* The runtime schedules the matcher and every goroutine it started.
Spec ==
    /\ Init /\ [][Next]_vars
    /\ WF_vars(Matcher) /\ \A f \in FieldNames : WF_vars(Goroutine(f))

----------------------------------------------------------------------------
(* Properties *)

\* Every variable keeps its type, and what is sent is a whole combination: one
\* label for each placeholder of the pattern.
TypeOK ==
    /\ mc \in Conditions /\ at \in DOMAIN Fields /\ result \in BOOLEAN
    /\ pc \in {"basic", "receive", "try", "done"}
    /\ pc = "try" <=> got # None
    /\ \A f \in FieldNames :
         /\ prod[f].state \in {"none", "run", "closed"}
         /\ Depth(f) <= Len(prod[f].order)
         /\ prod[f].out # None => prod[f].out.len = Len(prod[f].order)

\* One label for each placeholder of S, in every way.
Positions == UNION {DOMAIN Labels[p] : p \in DOMAIN Labels}
Picks(S) == {ix \in [S -> Positions] : \A p \in S : ix[p] \in DOMAIN Labels[p]}
Picked(S, ix) == {<<p, Labels[p][ix[p]]>> : p \in S}
Choices(S) == {Picked(S, ix) : ix \in Picks(S)}
Satisfied(pattern) ==
    \/ pattern.plain
    \/ pattern.uses # {} /\ pattern.accepts \cap Choices(pattern.uses) # {}

\* Matches is exact: a field matches iff its pattern does as it stands or with
\* some combination of the labels of all its placeholders, whatever the order
\* of the map, however far the goroutine has run ahead, and although slices
\* share arrays; a placeholder without labels leaves no combination.
MatchExact ==
    pc = "done" =>
        result = /\ \A f \in FieldNames : Satisfied(mc.patterns[f])
                 /\ mc.ip \in {"any", "own"}
                 /\ \A l \in DOMAIN mc.labels :
                      mc.labels[l] \cap {Labels[l][i] : i \in DOMAIN Labels[l]} # {}

\* No goroutine outlives its request: whether a combination matched early, late
\* or not at all, the goroutine ends and its channel is closed.
GoroutinesEnd ==
    \A f \in FieldNames : prod[f].state = "run" ~> prod[f].state = "closed"

\* The recursion's slices stay intact: while a loop runs, its own prefix of the
\* combination is what its outer loops chose, although the loops below append
\* to the very array it may share.
PrefixesIntact ==
    \A f \in FieldNames : \A d \in 1 .. Depth(f) :
        LET r == prod[f].stack[d].result IN
        /\ r.len = d - 1
        /\ \A k \in 1 .. r.len :
             Elements(mem[f], r)[k] =
               <<prod[f].order[k], Labels[prod[f].order[k]][prod[f].stack[k].i - 1]>>

----------------------------------------------------------------------------
(* The inductive invariant behind the safety properties *)

Slices == [arr : Nat, len : Nat]
Cells  == ((DOMAIN Labels) \X Nat) \cup {None}
Goroutines ==
    [state : {"none", "run", "closed"}, order : Seq(DOMAIN Labels),
     stack : Seq([i : Nat, result : Slices]), out : Slices \cup {None}, cancelled : BOOLEAN]

\* What the k-th loop of f's recursion has descended with.
Chosen(f, k) ==
    <<prod[f].order[k], Labels[prod[f].order[k]][prod[f].stack[k].i - 1]>>

\* Every loop's slice holds what the loops around it have chosen.
FramesOK(f) ==
    \A d \in 1 .. Depth(f) :
        LET fr == prod[f].stack[d] IN
        /\ fr.i > 0 /\ fr.result.len = d - 1
        /\ IF d = 1 THEN fr.result.arr = 0
           ELSE fr.result.arr \in DOMAIN mem[f] /\ d - 1 <= Len(mem[f][fr.result.arr])
        /\ d < Depth(f) => fr.i - 1 \in DOMAIN Labels[prod[f].order[d]]
        /\ \A k \in 1 .. d - 1 : mem[f][fr.result.arr][k] = Chosen(f, k)

\* An array of its own: no loop will write to it.
Apart(f, s) ==
    /\ s.arr \in DOMAIN mem[f] /\ s.len <= Len(mem[f][s.arr])
    /\ \A d \in 1 .. Depth(f) : prod[f].stack[d].result.arr # s.arr

\* What is about to be sent is the combination the loops are at.
OutOK(f) ==
    prod[f].out # None =>
        /\ prod[f].state = "run" /\ Depth(f) > 0 /\ Leaf(f) /\ HasNext(f)
        /\ prod[f].out.len = Depth(f) /\ Apart(f, prod[f].out)
        /\ \A k \in 1 .. Depth(f) :
             mem[f][prod[f].out.arr][k] = IF k < Depth(f) THEN Chosen(f, k) ELSE Element(f)

GoroutineOK(f) ==
    /\ Depth(f) <= Len(prod[f].order)
    /\ prod[f].state # "run" => Depth(f) = 0
    /\ FramesOK(f) /\ OutOK(f)

\* What was received last is a combination, and stays what it is.
GotOK ==
    pc = "try" =>
        /\ got \in Slices /\ got.len = Len(prod[F].order) /\ Apart(F, got)
        /\ \A k \in 1 .. got.len :
             \E j \in DOMAIN Labels[prod[F].order[k]] :
                 mem[F][got.arr][k] = <<prod[F].order[k], Labels[prod[F].order[k]][j]>>

\* The combination ix was received last.
Received(ix) ==
    /\ pc = "try"
    /\ \A k \in 1 .. got.len :
         mem[F][got.arr][k] = <<prod[F].order[k], Labels[prod[F].order[k]][ix[prod[F].order[k]]]>>

\* The goroutine has yet to send ix: some loop has not come to its label, and the
\* loops around that one are at theirs.
Pending(ix) ==
    \E d \in 1 .. Depth(F) :
        /\ \A k \in 1 .. d - 1 : ix[prod[F].order[k]] = prod[F].stack[k].i - 1
        /\ ix[prod[F].order[d]] >= prod[F].stack[d].i

\* While combinations are tried, none that matches has been passed over.
TryingOK ==
    pc \in {"receive", "try"} =>
        /\ ~Pattern.plain /\ Pattern.uses # {} /\ prod[F].order \in Orders(Pattern.uses)
        /\ ~prod[F].cancelled
        /\ \A ix \in Picks(Pattern.uses) : Picked(Pattern.uses, ix) \in Pattern.accepts => Received(ix) \/ Pending(ix)

IndInv ==
    /\ TypeOK
    /\ prod \in [FieldNames -> Goroutines] /\ mem \in [FieldNames -> Seq(Seq(Cells))]
    /\ \A f \in FieldNames : GoroutineOK(f)
    /\ GotOK /\ TryingOK
    /\ pc # "done" => ~result /\ \A i \in 1 .. at - 1 : Satisfied(mc.patterns[Fields[i]])
    /\ MatchExact
=============================================================================
