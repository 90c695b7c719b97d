----------------------------- MODULE Deflection -----------------------------
(***************************************************************************)
(* What a deflection stack promises, whatever layers it is made of.  Every *)
(* request is answered at most once: with what was produced for it, with   *)
(* an answer that is kept and that it may share, or not at all.  Only an   *)
(* answer that has been given is kept, and any answer may be forgotten.    *)
(* Gateway and ConnectProxy implement this specification.                  *)
(***************************************************************************)
EXTENDS TLAPS

CONSTANTS
  Requests,         \* request identities
  Inputs,           \* what a request may ask
  MayShare(_, _)    \* p may be given what was produced for q

VARIABLES
  in,      \* what each request asks
  given,   \* what it has been given
  kept     \* the requests whose answers are kept

vars == <<in, given, kept>>

Waiting == [state |-> "waiting", from |-> "none"]
Refused == [state |-> "refused", from |-> "none"]
AnsweredFrom(o) == [state |-> "answered", from |-> o]

Init ==
  /\ in \in [Requests -> Inputs]
  /\ given = [r \in Requests |-> Waiting]
  /\ kept = {}

Give(r, what) ==
  /\ given[r] = Waiting
  /\ given' = [given EXCEPT ![r] = what]

\* The answer of o is kept; others may have to go.
Keeping(o) == o \in kept' /\ kept' \subseteq kept \cup {o}

\* The answer is produced for r; it may be kept at once.
Produce(r) ==
  /\ Give(r, AnsweredFrom(r))
  /\ Keeping(r) \/ UNCHANGED kept

\* r is given an answer that is kept; looking it up forgets nothing.
Reuse(r) ==
  /\ \E o \in kept : Give(r, AnsweredFrom(o)) /\ MayShare(in[r], in[o])
  /\ UNCHANGED kept

Refuse(r) == Give(r, Refused) /\ UNCHANGED kept

\* What r has been given is kept.
Keep(r) ==
  /\ \E o \in Requests : given[r] = AnsweredFrom(o) /\ Keeping(o)
  /\ UNCHANGED given

Next ==
  \E r \in Requests :
    /\ Produce(r) \/ Reuse(r) \/ Refuse(r) \/ Keep(r)
    /\ UNCHANGED in

Spec == Init /\ [][Next]_vars
-----------------------------------------------------------------------------
(* What follows from the promise.                                          *)

TypeOK ==
  /\ in \in [Requests -> Inputs]
  /\ given \in [Requests -> {Waiting, Refused} \cup {AnsweredFrom(o) : o \in Requests}]
  /\ kept \subseteq Requests

\* Every answer comes from a request it may be shared with, and that request
\* was given it first: no answer is served before it has been produced.
FirstHand ==
  /\ \A r, o \in Requests : given[r] = AnsweredFrom(o) =>
       /\ r = o \/ MayShare(in[r], in[o])
       /\ given[o] = AnsweredFrom(o)
  /\ \A o \in kept : given[o] = AnsweredFrom(o)

\* What a request has been given never changes.
AnsweredOnce ==
  [][\A r \in Requests : given[r] # Waiting => given'[r] = given[r]]_given
-----------------------------------------------------------------------------
LEMMA TypeStep ==
  ASSUME TypeOK, [Next]_vars
  PROVE  TypeOK'
  <1>1. ASSUME NEW r \in Requests, NEW o \in Requests, Give(r, AnsweredFrom(o)) \/ Give(r, Refused)
        PROVE  given' \in [Requests -> {Waiting, Refused} \cup {AnsweredFrom(q) : q \in Requests}]
    BY <1>1 DEF TypeOK, Give
  <1>2. ASSUME NEW o \in Requests, Keeping(o) \/ UNCHANGED kept
        PROVE  kept' \subseteq Requests
    BY <1>2 DEF TypeOK, Keeping
  <1>3. ASSUME NEW r \in Requests, UNCHANGED in, Produce(r) \/ Reuse(r) \/ Refuse(r) \/ Keep(r)
        PROVE  TypeOK'
    <2>1. CASE Produce(r)
      BY <1>1, <1>2, <1>3, <2>1 DEF Produce, TypeOK
    <2>2. CASE Reuse(r)
      <3>1. kept \subseteq Requests
        BY DEF TypeOK
      <3> QED BY <1>1, <1>2, <1>3, <2>2, <3>1 DEF Reuse, TypeOK
    <2>3. CASE Refuse(r)
      BY <1>1, <1>2, <1>3, <2>3 DEF Refuse, TypeOK
    <2>4. CASE Keep(r)
      BY <1>2, <1>3, <2>4 DEF Keep, TypeOK
    <2> QED BY <1>3, <2>1, <2>2, <2>3, <2>4
  <1>4. CASE UNCHANGED vars
    BY <1>4 DEF TypeOK, vars
  <1> QED BY <1>3, <1>4 DEF Next

\* A step that gives r something leaves what others have been given.
LEMMA GiveStep ==
  ASSUME TypeOK, NEW r \in Requests, NEW what, Give(r, what)
  PROVE  /\ given[r] = Waiting /\ given'[r] = what
         /\ \A s \in Requests : given[s] # Waiting => given'[s] = given[s]
  BY DEF TypeOK, Give

LEMMA Distinct ==
  /\ Waiting # Refused
  /\ \A o : AnsweredFrom(o) # Waiting /\ AnsweredFrom(o) # Refused
  /\ \A o, q : AnsweredFrom(o) = AnsweredFrom(q) => o = q
  <1>1. Waiting.state = "waiting" /\ Refused.state = "refused"
    BY DEF Waiting, Refused
  <1>2. \A o : AnsweredFrom(o).state = "answered" /\ AnsweredFrom(o).from = o
    BY DEF AnsweredFrom
  <1> QED BY <1>1, <1>2

LEMMA FirstHandStep ==
  ASSUME TypeOK, FirstHand, [Next]_vars
  PROVE  FirstHand'
  \* A step that gives an answer, if at all, to a waiting request.
  <1>1. ASSUME NEW r \in Requests, NEW o \in Requests, UNCHANGED in,
               Give(r, AnsweredFrom(o)),
               r = o \/ (MayShare(in[r], in[o]) /\ given[o] = AnsweredFrom(o)),
               kept' \subseteq kept \cup {o}
        PROVE  FirstHand'
    <2>1. given'[r] = AnsweredFrom(o) /\ given'[o] = AnsweredFrom(o)
      BY <1>1, GiveStep, Distinct
    <2>2. ASSUME NEW s \in Requests, NEW q \in Requests, given'[s] = AnsweredFrom(q)
          PROVE  (s = q \/ MayShare(in'[s], in'[q])) /\ given'[q] = AnsweredFrom(q)
      <3>1. CASE s = r
        BY <1>1, <2>1, <2>2, <3>1, Distinct
      <3>2. CASE s # r
        <4>1. given[s] = AnsweredFrom(q)
          BY <1>1, <2>2, <3>2 DEF Give, TypeOK
        <4> QED BY <1>1, <4>1, GiveStep, Distinct DEF FirstHand
      <3> QED BY <3>1, <3>2
    <2>3. ASSUME NEW q \in kept' PROVE given'[q] = AnsweredFrom(q)
      <3>1. q = o \/ given[q] = AnsweredFrom(q)
        BY <1>1 DEF FirstHand
      <3>2. q \in Requests
        BY <1>1 DEF TypeOK
      <3> QED BY <1>1, <2>1, <3>1, <3>2, GiveStep, Distinct
    <2> QED BY <2>2, <2>3 DEF FirstHand
  <1>2. ASSUME NEW r \in Requests, Produce(r), UNCHANGED in PROVE FirstHand'
    BY <1>1, <1>2 DEF Produce, Keeping
  <1>3. ASSUME NEW r \in Requests, Reuse(r), UNCHANGED in PROVE FirstHand'
    <2>1. PICK o \in kept : MayShare(in[r], in[o]) /\ Give(r, AnsweredFrom(o))
      BY <1>3 DEF Reuse
    <2>2. o \in Requests /\ given[o] = AnsweredFrom(o) /\ kept' = kept
      BY <1>3 DEF FirstHand, TypeOK, Reuse
    <2> QED BY <1>1, <1>3, <2>1, <2>2
  <1>4. ASSUME NEW r \in Requests, Refuse(r), UNCHANGED in PROVE FirstHand'
    <2>1. \A s, q \in Requests : given'[s] = AnsweredFrom(q) => given[s] = AnsweredFrom(q)
      BY <1>4, Distinct DEF Refuse, Give, TypeOK
    <2>2. \A s, q \in Requests : given[s] = AnsweredFrom(q) => given'[s] = AnsweredFrom(q)
      BY <1>4, Distinct, GiveStep DEF Refuse
    <2> QED BY <1>4, <2>1, <2>2 DEF Refuse, FirstHand, TypeOK
  <1>5. ASSUME NEW r \in Requests, Keep(r), UNCHANGED in PROVE FirstHand'
    <2>1. PICK o \in Requests : given[r] = AnsweredFrom(o) /\ Keeping(o)
      BY <1>5 DEF Keep
    <2>2. given[o] = AnsweredFrom(o) /\ given' = given
      BY <1>5, <2>1 DEF FirstHand, Keep
    <2> QED BY <1>5, <2>1, <2>2 DEF FirstHand, Keeping
  <1>6. CASE UNCHANGED vars
    BY <1>6 DEF FirstHand, vars
  <1> QED BY <1>2, <1>3, <1>4, <1>5, <1>6 DEF Next

\* Whatever implements this specification never serves an answer that was not
\* given first to the request it was produced for, nor one that may not be
\* shared (the promise of middleware/cache.rs and proxy/connect.rs).
THEOREM AnswersAreFirstHand == Spec => [](TypeOK /\ FirstHand)
  <1>1. Init => TypeOK /\ FirstHand
    <2> SUFFICES ASSUME Init PROVE TypeOK /\ FirstHand
      OBVIOUS
    <2> QED BY Distinct DEF Init, TypeOK, FirstHand
  <1>2. TypeOK /\ FirstHand /\ [Next]_vars => (TypeOK /\ FirstHand)'
    BY TypeStep, FirstHandStep
  <1> QED BY <1>1, <1>2, PTL DEF Spec

\* Whatever implements this specification answers a request once and for all.
THEOREM AnswersAreFinal == Spec => AnsweredOnce
  <1> DEFINE Fixed == \A r \in Requests : given[r] # Waiting => given'[r] = given[r]
  <1>1. ASSUME TypeOK, [Next]_vars
        PROVE  [Fixed]_given
    <2>1. ASSUME NEW r \in Requests, NEW what, Give(r, what) PROVE Fixed
      BY <1>1, <2>1, GiveStep
    <2>2. ASSUME NEW r \in Requests, Produce(r) \/ Reuse(r) \/ Refuse(r) PROVE Fixed
      BY <2>1, <2>2 DEF Produce, Reuse, Refuse
    <2>3. ASSUME UNCHANGED given PROVE [Fixed]_given
      BY <2>3
    <2> QED BY <1>1, <2>2, <2>3 DEF Next, Keep, vars
  <1>2. Spec => []TypeOK
    BY AnswersAreFirstHand, PTL
  <1> QED BY <1>1, <1>2, PTL DEF Spec, AnsweredOnce
=============================================================================
