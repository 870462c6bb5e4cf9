---------------------------- MODULE FreshAnswers ----------------------------
(***************************************************************************)
(* What a cached view of the cluster promises its callers, whatever cache, *)
(* shared flight, retry or timeout lies behind it: a call is answered      *)
(* before its patience is used up, with a failure or with what was true at *)
(* most MaxAge ago.  The rules fetcher, the namespace checker and the      *)
(* token authenticator are each shown to implement it.                     *)
(***************************************************************************)
EXTENDS Integers

CONSTANTS
    Callers,
    MaxChanges, \* bound: how often the cluster changes
    MaxAge,     \* the age an answer may have when it is given
    Patience,   \* the time an answer may take
    AgeCap      \* bound: ages are not told apart from here on

VARIABLES
    now,    \* version of the cluster's state
    age,    \* age[v]: time since version v was superseded (saturating)
    st,     \* per caller: idle, asked or answered
    left,   \* per caller: an upper bound on the time it will still wait
    ans     \* per caller: the answer it was given

callVars == <<st, left, ans>>
vars     == <<now, age, callVars>>

Versions == 0 .. MaxChanges
NoAnswer == [kind |-> "none", ver |-> 0]
Failure  == [kind |-> "failure", ver |-> 0]
Value(v) == [kind |-> "value", ver |-> v]
Fresh    == {v \in 0 .. now : age[v] <= MaxAge}
Answers  == {Failure} \cup {Value(v) : v \in Fresh}

Init ==
    /\ now = 0
    /\ age = [v \in Versions |-> 0]
    /\ st = [c \in Callers |-> "idle"]
    /\ left = [c \in Callers |-> 0]
    /\ ans = [c \in Callers |-> NoAnswer]

Ask(c) ==
    /\ st[c] = "idle"
    /\ st' = [st EXCEPT ![c] = "asked"]
    /\ left' = [left EXCEPT ![c] = Patience]
    /\ UNCHANGED <<now, age, ans>>

\* Callers that came to share a flight will wait no longer than it does.
Hurry(S, n) ==
    /\ \A c \in S : st[c] = "asked" /\ n <= left[c]
    /\ left' = [c \in Callers |-> IF c \in S THEN n ELSE left[c]]
    /\ UNCHANGED <<now, age, st, ans>>

\* Callers that share a flight get the same answer at once.
Answer(S, a) ==
    /\ \A c \in S : st[c] = "asked"
    /\ a \in Answers
    /\ st' = [c \in Callers |-> IF c \in S THEN "answered" ELSE st[c]]
    /\ left' = [c \in Callers |-> IF c \in S THEN 0 ELSE left[c]]
    /\ ans' = [c \in Callers |-> IF c \in S THEN a ELSE ans[c]]
    /\ UNCHANGED <<now, age>>

Return(c) ==
    /\ st[c] = "answered"
    /\ st' = [st EXCEPT ![c] = "idle"]
    /\ ans' = [ans EXCEPT ![c] = NoAnswer]
    /\ UNCHANGED <<now, age, left>>

Change ==
    /\ now < MaxChanges
    /\ now' = now + 1
    /\ UNCHANGED <<age, callVars>>

Tick ==
    /\ \A c \in Callers : st[c] # "answered"
    /\ \A c \in Callers : st[c] = "asked" => left[c] > 0
    /\ age' = [v \in Versions |->
                 IF v < now /\ age[v] < AgeCap THEN age[v] + 1 ELSE age[v]]
    /\ left' = [c \in Callers |-> IF st[c] = "asked" THEN left[c] - 1 ELSE left[c]]
    /\ UNCHANGED <<now, st, ans>>

Next ==
    \/ \E c \in Callers : Ask(c) \/ Return(c)
    \/ \E S \in SUBSET Callers, n \in 0 .. Patience : Hurry(S, n)
    \/ \E S \in SUBSET Callers : \E a \in Answers : Answer(S, a)
    \/ Change
    \/ Tick

Spec == Init /\ [][Next]_vars
=============================================================================
