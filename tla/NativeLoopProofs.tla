------------------------ MODULE NativeLoopProofs ------------------------
(***************************************************************************)
(* Proofs about NativeLoop for every set of calls and contexts and every   *)
(* bound: each call of a request has one result, which is the effect's     *)
(* own; a context enters at most once; a turn that completes ends with the *)
(* model's answer.                                                         *)
(***************************************************************************)
EXTENDS NativeLoop, TLAPS, SequenceTheorems, FiniteSetTheorems, WellFoundedInduction

(* The entries of a conversation.                                          *)
\* A call is made once, answered once, and made before it is answered.
Ordered(s) ==
    /\ \A i, j \in DOMAIN s : s[i].is = "call" /\ s[j] = s[i] => i = j
    /\ \A i, j \in DOMAIN s :
         s[i].is = "result" /\ s[j].is = "result" /\ s[j].of = s[i].of => i = j
    /\ \A i \in DOMAIN s : s[i].is = "result" =>
         \E j \in DOMAIN s : j < i /\ s[j] = Call(s[i].of)
\* Pending calls are different, and not answered.
Waiting(s, p) ==
    /\ \A k, l \in DOMAIN p : p[k] = p[l] => k = l
    /\ \A k \in DOMAIN p : p[k] \in CallsIn(s) \ Answered(s)
\* A call that was not abandoned is pending or answered, in the latter case
\* before anything but calls and results follows.
Closed(s, p, lost) ==
    \A i \in DOMAIN s : s[i].is = "call" /\ s[i].of \notin lost =>
        /\ s[i].of \in Answered(s) \union Range(p)
        /\ \A j \in DOMAIN s : j > i /\ s[j].is \notin {"call", "result"} =>
             \E k \in DOMAIN s : k < j /\ s[k].is = "result" /\ s[k].of = s[i].of
Shape(s, p, lost) == Ordered(s) /\ Waiting(s, p) /\ Closed(s, p, lost)

\* What a result says of an effect is what the record says of it.
Exact(s, lost, effects) ==
    \A i \in DOMAIN s : s[i].is = "result" /\ s[i].of \notin lost =>
        /\ s[i].how = "known" <=> effects[s[i].of] = "known"
        /\ s[i].how = "skipped" => effects[s[i].of] = "none"

\* What a summary stands for is in the conversation no more.
Once(c) ==
    /\ \A i, j \in DOMAIN c.entries : c.entries[i].is = "context" /\ c.entries[j] = c.entries[i] => i = j
    /\ \A i \in DOMAIN c.entries : c.entries[i].is \in {"call", "context"} =>
         c.entries[i].of \notin c.gone
Carried(c) == {x \in Contexts : x \in c.gone \/ \E i \in DOMAIN c.entries : c.entries[i] = Context(x)}

Good(c, p, lost, effects) == Shape(c.entries, p, lost) /\ Exact(c.entries, lost, effects) /\ Once(c)
-----------------------------------------------------------------------------
Live == Good(conv, pending, abandoned, ledger)
\* The checkpoint is good by itself, and holds what a restart must know.
Recorded ==
    /\ Good(saved.conv, saved.pending, abandoned, ledger)
    /\ Carried(saved.conv) = Carried(conv)
    /\ CallsIn(saved.conv.entries) \subseteq CallsIn(conv.entries) \union conv.gone
    /\ \A k \in DOMAIN pending : pending[k] \notin Answered(saved.conv.entries)
    /\ \A k \in DOMAIN saved.pending : saved.pending[k] \notin saved.cursor \ abandoned

Compacts == {"compacting", "summarizing", "compacted"}
InTools == {"answered", "recorded", "tools", "executing", "hooks", "released"}
Closing == {"ending", "closing", "saving", "finishing"}
Quiet == \A k \in DOMAIN pending : pending[k] \in abandoned
\* Where calls may be pending, and where the turn is an open operation.
Flow ==
    /\ run.step \notin InTools \union {"ending", "dropped", "idle"} => Quiet
    /\ run.step \in {"dropped", "idle"} => Quiet \/ "turn" \in open
    /\ run.step \notin Compacts \union Closing \union {"idle", "dropped"} => "turn" \in open
    /\ run.step = "idle" => run = Idle
    /\ run.step \in {"delivering", "entered"} => run.at \in {"context", "end"}
    /\ run.step \in Compacts => run.at \in {"idle", "top"}
    /\ run.step \in Compacts /\ run.at = "top" => "turn" \in open
    /\ run.at = "idle" => run.step \in Compacts \union {"finishing", "dropped"}
    /\ run.outcome # None => run.step \in Closing
    /\ run.step \in Compacts => pending = <<>>
    /\ run.step \in {"compacting", "summarizing"} => MayCompact(conv.entries)

\* What the record says of the effects of the pending calls.
Effects ==
    /\ receipt # None => ledger[receipt] = "known"
    /\ run.step \in {"answered", "recorded", "tools", "released"} =>
         \A k \in DOMAIN pending : ledger[pending[k]] = "none"
    /\ run.step \in {"executing", "hooks"} =>
         /\ pending # <<>>
         /\ \A k \in DOMAIN pending : k > 1 => ledger[pending[k]] = "none"
    /\ run.step = "executing" => ledger[pending[1]] = "begun" /\ receipt = None
    /\ run.step = "hooks" => receipt = pending[1]
    /\ run.step \in {"ending", "dropped", "idle"} =>
         \A k \in DOMAIN pending : pending[k] \notin abandoned =>
             (ledger[pending[k]] = "known" <=> k = 1 /\ receipt = pending[1])

\* Where the contexts are that are on their way.
Started == {x \in Contexts : delivery[x] # "none"}
Delivering ==
    /\ \A x \in Contexts : delivery[x] \in {"none", "pending"} => x \notin Carried(conv)
    /\ \A x \in Contexts : delivery[x] = "delivered" => x \in Carried(conv)
    /\ IsFiniteSet(Started)
    /\ \A x \in run.refs : delivery[x] # "none"
    /\ run.step \in {"delivering", "preparing"} =>
         \A x \in run.refs : delivery[x] = "reserved" /\ x \notin Carried(conv)
    /\ run.step \in {"entered", "requested", "answered"} => run.refs \subseteq Carried(conv)
    /\ run.rewake = {} \/ \E x \in Rewakes : run.rewake = {x}
    /\ run.step = "submit" => \A x \in run.rewake : delivery[x] = "reserved" /\ x \notin Carried(conv)
    /\ run.step \notin {"idle", "submit", "dropped"} /\ run.outcome \in {None, "complete"} =>
         run.rewake \subseteq Carried(conv)

\* The model has spoken last, unless something came in since.
Spoken == pending = <<>> /\ conv.entries # <<>> /\ conv.entries[Len(conv.entries)] = Answer
Finished ==
    /\ run.step \in {"answered", "recorded", "tools", "end", "round"} /\ run.finished /\ ~run.corrected => Spoken
    /\ run.step \in {"executing", "hooks", "released"} => ~run.finished
    /\ run.step = "stop" => Spoken
    /\ run.step = "ending" /\ run.outcome = "complete" => Spoken /\ run.corrections = 0
    /\ run.step \in InTools => ~run.corrected

Sound == Live /\ Recorded /\ Flow /\ Effects /\ Delivering /\ Finished
IInv == TypeOK /\ Sound
-----------------------------------------------------------------------------
(* Entries, and what is said at the end of a conversation.                 *)
Kinds == {"prompt", "answer", "note", "summary", "call", "context", "result"}
LEMMA EntryKinds ==
    ASSUME NEW e \in Entries
    PROVE  /\ e.is \in Kinds
           /\ e.is = "call" => e.of \in Calls /\ e = Call(e.of)
           /\ e.is = "context" => e.of \in Contexts /\ e = Context(e.of)
           /\ e.is = "result" => e.of \in Calls
           /\ e.is \notin {"call", "context", "result"} => e.of = None
<1>1. CASE e \in {Prompt, Note, Answer, Summary}
  BY <1>1 DEF Prompt, Note, Answer, Summary, Kinds
<1>2. CASE \E c \in Calls : e = Call(c)
  BY <1>2 DEF Call, Kinds
<1>3. CASE \E x \in Contexts : e = Context(x)
  BY <1>3 DEF Context, Kinds
<1>4. CASE \E c \in Calls : \E how \in {"known", "stopped", "skipped", "interrupted"} :
             e = Result(c, how)
  BY <1>4 DEF Result, Kinds
<1>5. QED
  BY <1>1, <1>2, <1>3, <1>4 DEF Entries

LEMMA Made ==
    /\ \A c \in Calls : Call(c) \in Entries /\ Call(c).is = "call" /\ Call(c).of = c
    /\ \A x \in Contexts : /\ Context(x) \in Entries
                           /\ Context(x).is = "context" /\ Context(x).of = x
    /\ \A c \in Calls, how \in {"known", "stopped", "skipped", "interrupted"} :
         /\ Result(c, how) \in Entries /\ Result(c, how).is = "result"
         /\ Result(c, how).of = c /\ Result(c, how).how = how
    /\ Prompt \in Entries /\ Note \in Entries /\ Answer \in Entries /\ Summary \in Entries
    /\ Prompt.is = "prompt" /\ Note.is = "note" /\ Answer.is = "answer" /\ Summary.is = "summary"
<1>1. \A c \in Calls : Call(c) \in Entries /\ Call(c).is = "call" /\ Call(c).of = c
  BY DEF Call, Entries
<1>2. \A x \in Contexts : /\ Context(x) \in Entries
                          /\ Context(x).is = "context" /\ Context(x).of = x
  BY DEF Context, Entries
<1>3. ASSUME NEW c \in Calls, NEW how \in {"known", "stopped", "skipped", "interrupted"}
      PROVE  /\ Result(c, how) \in Entries /\ Result(c, how).is = "result"
             /\ Result(c, how).of = c /\ Result(c, how).how = how
  BY DEF Result, Entries
<1>4. /\ Prompt \in Entries /\ Note \in Entries /\ Answer \in Entries /\ Summary \in Entries
      /\ Prompt.is = "prompt" /\ Note.is = "note" /\ Answer.is = "answer" /\ Summary.is = "summary"
  BY DEF Prompt, Note, Answer, Summary, Entries
<1>5. QED
  BY <1>1, <1>2, <1>3, <1>4

LEMMA Membership ==
    ASSUME NEW s, NEW c
    PROVE  /\ c \in CallsIn(s) <=> \E i \in DOMAIN s : s[i].is = "call" /\ s[i].of = c
           /\ c \in Answered(s) <=> \E i \in DOMAIN s : s[i].is = "result" /\ s[i].of = c
<1>1. c \in CallsIn(s) <=> \E i \in {j \in DOMAIN s : s[j].is = "call"} : c = s[i].of
  BY DEF CallsIn
<1>2. c \in Answered(s) <=> \E i \in {j \in DOMAIN s : s[j].is = "result"} : c = s[i].of
  BY DEF Answered
<1>3. QED
  BY <1>1, <1>2

\* The entries of s, and then those of t.
LEMMA Joined ==
    ASSUME NEW s \in Seq(Entries), NEW t \in Seq(Entries)
    PROVE  /\ s \o t \in Seq(Entries) /\ Len(s \o t) = Len(s) + Len(t)
           /\ \A i \in DOMAIN s : i \in DOMAIN (s \o t) /\ (s \o t)[i] = s[i]
           /\ \A i \in DOMAIN t : /\ Len(s) + i \in DOMAIN (s \o t)
                                  /\ (s \o t)[Len(s) + i] = t[i]
           /\ \A i \in DOMAIN (s \o t) :
                \/ i \in DOMAIN s
                \/ i > Len(s) /\ i - Len(s) \in DOMAIN t /\ (s \o t)[i] = t[i - Len(s)]
           /\ \A i \in DOMAIN (s \o t) : i \in Nat
           /\ \A i \in DOMAIN s : i \in Nat /\ i <= Len(s)
           /\ \A i \in DOMAIN t : i \in Nat \ {0}
           /\ Len(s) \in Nat
<1>1. s \o t \in Seq(Entries) /\ Len(s \o t) = Len(s) + Len(t)
  BY ConcatProperties
<1>2. /\ DOMAIN s = 1..Len(s) /\ DOMAIN t = 1..Len(t)
      /\ DOMAIN (s \o t) = 1..(Len(s) + Len(t))
      /\ Len(s) \in Nat /\ Len(t) \in Nat
  BY <1>1
<1>3. \A i \in 1..(Len(s) + Len(t)) :
         (s \o t)[i] = IF i <= Len(s) THEN s[i] ELSE t[i - Len(s)]
  BY ConcatProperties
<1>4. QED
  BY <1>1, <1>2, <1>3

Plain(t) == \A i \in DOMAIN t : t[i].is \notin {"call", "result"}

LEMMA PlainShape ==
    ASSUME NEW s \in Seq(Entries), NEW t \in Seq(Entries), NEW p, NEW lost,
           Plain(t), Shape(s, p, lost), \A k \in DOMAIN p : p[k] \in lost
    PROVE  /\ Shape(s \o t, p, lost)
           /\ CallsIn(s \o t) = CallsIn(s) /\ Answered(s \o t) = Answered(s)
<1> DEFINE u == s \o t
<1>1. /\ \A i \in DOMAIN s : i \in DOMAIN u /\ u[i] = s[i] /\ i <= Len(s)
      /\ \A i \in DOMAIN u : i \in DOMAIN s \/ (i > Len(s) /\ u[i].is \notin {"call", "result"})
      /\ \A i \in DOMAIN u : i \in Nat
  BY Joined DEF Plain
<1> HIDE DEF u
<1>2. \A c : (c \in CallsIn(u) <=> c \in CallsIn(s)) /\ (c \in Answered(u) <=> c \in Answered(s))
  BY <1>1, Membership
<1>3. CallsIn(u) = CallsIn(s) /\ Answered(u) = Answered(s)
  BY <1>2
<1>4. Ordered(u)
  BY <1>1 DEF Shape, Ordered
<1>5. Waiting(u, p)
  BY <1>3 DEF Shape, Waiting
<1>6. Closed(u, p, lost)
  <2> SUFFICES ASSUME NEW i \in DOMAIN u, u[i].is = "call", u[i].of \notin lost
               PROVE  /\ u[i].of \in Answered(u) \union Range(p)
                      /\ \A j \in DOMAIN u : j > i /\ u[j].is \notin {"call", "result"} =>
                           \E k \in DOMAIN u : k < j /\ u[k].is = "result" /\ u[k].of = u[i].of
    BY DEF Closed
  <2>1. i \in DOMAIN s /\ u[i] = s[i]
    BY <1>1
  <2>2. u[i].of \in Answered(s)
    BY <2>1 DEF Shape, Closed, Range
  <2>3. PICK k \in DOMAIN s : s[k].is = "result" /\ s[k].of = u[i].of
    BY <2>2, Membership
  <2>4. ASSUME NEW j \in DOMAIN u, j > i, u[j].is \notin {"call", "result"}
        PROVE  \E l \in DOMAIN u : l < j /\ u[l].is = "result" /\ u[l].of = u[i].of
    <3>1. CASE j \in DOMAIN s
      <4>1. PICK l \in DOMAIN s : l < j /\ s[l].is = "result" /\ s[l].of = s[i].of
        BY <1>1, <2>1, <2>4, <3>1 DEF Shape, Closed
      <4>2. QED
        BY <1>1, <2>1, <4>1
    <3>2. CASE j > Len(s)
      <4>1. k < j
        BY <1>1, <3>2
      <4>2. QED
        BY <1>1, <2>3, <4>1
    <3>3. QED
      BY <1>1, <2>4, <3>1, <3>2
  <2>5. QED
    BY <1>3, <2>2, <2>4
<1>7. QED
  BY <1>3, <1>4, <1>5, <1>6 DEF Shape, u

\* Saying something adds it to the entries.
LEMMA Said ==
    ASSUME NEW c \in Conversations, NEW t \in Seq(Entries)
    PROVE  /\ With(c, t).entries = c.entries \o t /\ With(c, t).gone = c.gone
           /\ With(c, t) \in Conversations
           /\ c.entries \in Seq(Entries) /\ c.gone \subseteq Calls \union Contexts
<1>1. PICK e \in Seq(Entries), g \in SUBSET (Calls \union Contexts) : c = [entries |-> e, gone |-> g]
  BY DEF Conversations
<1>2. c.entries = e /\ c.gone = g
  BY <1>1
<1>3. PICK v : v = c.entries \o t
  OBVIOUS
<1>4. v \in Seq(Entries)
  BY <1>2, <1>3, ConcatProperties
<1>5. With(c, t) = [c EXCEPT !.entries = v]
  BY <1>3 DEF With
<1>6. With(c, t) = [entries |-> v, gone |-> g]
  BY <1>1, <1>5
<1>7. With(c, t) \in Conversations
  BY <1>4, <1>6 DEF Conversations
<1>8. QED
  BY <1>2, <1>3, <1>6, <1>7

\* Prompts, notes and contexts that are new, where no call waits.
LEMMA SayPlain ==
    ASSUME NEW c \in Conversations, NEW t \in Seq(Entries), NEW p, NEW lost, NEW effects,
           Plain(t), Good(c, p, lost, effects), \A k \in DOMAIN p : p[k] \in lost,
           \A i, j \in DOMAIN t : t[i].is = "context" /\ t[j] = t[i] => i = j,
           \A i \in DOMAIN t : t[i].is = "context" => t[i].of \notin Carried(c)
    PROVE  /\ Good(With(c, t), p, lost, effects)
           /\ Carried(With(c, t)) = Carried(c) \union {x \in Contexts : \E i \in DOMAIN t : t[i] = Context(x)}
           /\ CallsIn(With(c, t).entries) = CallsIn(c.entries)
           /\ Answered(With(c, t).entries) = Answered(c.entries)
<1> DEFINE s == c.entries
           w == With(c, t)
           u == w.entries
<1>1. /\ u = s \o t /\ w.gone = c.gone /\ s \in Seq(Entries)
  BY Said
<1>2. /\ \A i \in DOMAIN s : i \in DOMAIN u /\ u[i] = s[i] /\ i <= Len(s)
      /\ \A i \in DOMAIN t : Len(s) + i \in DOMAIN u /\ u[Len(s) + i] = t[i]
      /\ \A i \in DOMAIN u : \/ i \in DOMAIN s
                             \/ i > Len(s) /\ i - Len(s) \in DOMAIN t /\ u[i] = t[i - Len(s)]
      /\ \A i \in DOMAIN u : i \in Nat /\ u[i] \in Entries
      /\ Len(s) \in Nat /\ s \in Seq(Entries)
  BY <1>1, Joined
<1>3. Shape(u, p, lost) /\ CallsIn(u) = CallsIn(s) /\ Answered(u) = Answered(s)
  BY <1>1, PlainShape DEF Good
<1> HIDE DEF u, w, s
<1>4. Exact(u, lost, effects)
  BY <1>2 DEF Good, Exact, Plain, s
<1>5. Carried(w) = Carried(c) \union {x \in Contexts : \E i \in DOMAIN t : t[i] = Context(x)}
  <2>1. ASSUME NEW x \in Contexts
        PROVE  (\E i \in DOMAIN u : u[i] = Context(x)) <=>
               (\E i \in DOMAIN s : s[i] = Context(x)) \/ (\E i \in DOMAIN t : t[i] = Context(x))
    BY <1>2
  <2>2. QED
    BY <1>1, <2>1 DEF Carried, u, s
<1>6. \A i \in DOMAIN s : s[i].is = "context" => s[i].of \in Carried(c) /\ s[i] = Context(s[i].of)
  BY <1>2, EntryKinds DEF Carried, s
<1>7. \A i \in DOMAIN t : t[i].is = "context" => t[i].of \in Contexts \ Carried(c) /\ t[i] = Context(t[i].of)
  BY EntryKinds
<1>8. Once(w)
  <2>1. \A i, j \in DOMAIN u : u[i].is = "context" /\ u[j] = u[i] => i = j
    <3> SUFFICES ASSUME NEW i \in DOMAIN u, NEW j \in DOMAIN u, u[i].is = "context", u[j] = u[i]
                 PROVE  i = j
      OBVIOUS
    <3>1. CASE i \in DOMAIN s /\ j \in DOMAIN s
      BY <1>2, <3>1 DEF Good, Once, s
    <3>2. CASE i \notin DOMAIN s /\ j \notin DOMAIN s
      <4>1. i - Len(s) = j - Len(s)
        BY <1>2, <3>2
      <4>2. QED
        BY <1>2, <4>1
    <3>3. CASE i \in DOMAIN s /\ j \notin DOMAIN s
      <4>1. u[j] = t[j - Len(s)] /\ j - Len(s) \in DOMAIN t /\ u[i] = s[i]
        BY <1>2, <3>3
      <4>2. s[i].of \in Carried(c) /\ s[i].of \notin Carried(c)
        BY <1>6, <1>7, <3>3, <4>1
      <4>3. QED
        BY <4>2
    <3>4. CASE i \notin DOMAIN s /\ j \in DOMAIN s
      <4>1. u[i] = t[i - Len(s)] /\ i - Len(s) \in DOMAIN t /\ u[j] = s[j]
        BY <1>2, <3>4
      <4>2. s[j].of \in Carried(c) /\ s[j].of \notin Carried(c)
        BY <1>6, <1>7, <3>4, <4>1
      <4>3. QED
        BY <4>2
    <3>5. QED
      BY <3>1, <3>2, <3>3, <3>4
  <2>2. \A i \in DOMAIN u : u[i].is \in {"call", "context"} => u[i].of \notin w.gone
    <3> SUFFICES ASSUME NEW i \in DOMAIN u, u[i].is \in {"call", "context"}
                 PROVE  u[i].of \notin c.gone
      BY <1>1 DEF w
    <3>1. CASE i \in DOMAIN s
      BY <1>2, <3>1 DEF Good, Once, s
    <3>2. CASE i \notin DOMAIN s
      <4>1. u[i].is = "context" /\ i - Len(s) \in DOMAIN t /\ u[i] = t[i - Len(s)]
        BY <1>2, <3>2 DEF Plain
      <4>2. u[i].of \in Contexts \ Carried(c)
        BY <1>7, <4>1
      <4>3. QED
        BY <4>2 DEF Carried
    <3>3. QED
      BY <3>1, <3>2
  <2>3. QED
    BY <2>1, <2>2 DEF Once, u
<1>9. QED
  BY <1>3, <1>4, <1>5, <1>8 DEF Good, u, w, s

\* Results of the first of the pending calls.
Tells(t, p, lost, effects) ==
    \A i \in DOMAIN t :
        /\ t[i].is = "result" /\ t[i].of = p[i]
        /\ p[i] \notin lost => /\ t[i].how = "known" <=> effects[p[i]] = "known"
                               /\ t[i].how = "skipped" => effects[p[i]] = "none"
Leaves(t, p, q) ==
    /\ Len(t) + Len(q) = Len(p)
    /\ \A k \in DOMAIN q : q[k] = p[Len(t) + k]

LEMMA SayResults ==
    ASSUME NEW c \in Conversations, NEW t \in Seq(Entries), NEW p \in Seq(Calls),
           NEW q \in Seq(Calls), NEW lost, NEW effects,
           Good(c, p, lost, effects), Tells(t, p, lost, effects), Leaves(t, p, q)
    PROVE  /\ Good(With(c, t), q, lost, effects)
           /\ Carried(With(c, t)) = Carried(c)
           /\ CallsIn(With(c, t).entries) = CallsIn(c.entries)
<1> DEFINE s == c.entries
           w == With(c, t)
           u == w.entries
<1>1. /\ u = s \o t /\ w.gone = c.gone /\ s \in Seq(Entries)
  BY Said
<1>2. /\ \A i \in DOMAIN s : i \in DOMAIN u /\ u[i] = s[i] /\ i <= Len(s) /\ i \in Nat
      /\ \A i \in DOMAIN t : Len(s) + i \in DOMAIN u /\ u[Len(s) + i] = t[i] /\ i \in Nat \ {0}
      /\ \A i \in DOMAIN u : \/ i \in DOMAIN s
                             \/ i > Len(s) /\ i - Len(s) \in DOMAIN t /\ u[i] = t[i - Len(s)]
      /\ \A i \in DOMAIN u : i \in Nat /\ u[i] \in Entries
      /\ Len(s) \in Nat /\ s \in Seq(Entries)
  BY <1>1, Joined
<1>3. /\ \A i \in DOMAIN t : i \in DOMAIN p
      /\ \A k \in DOMAIN q : Len(t) + k \in DOMAIN p
      /\ \A k \in DOMAIN p : k \in DOMAIN t \/ (k - Len(t) \in DOMAIN q /\ q[k - Len(t)] = p[k])
      /\ Len(t) \in Nat /\ \A k \in DOMAIN t : k \in Nat /\ k <= Len(t)
      /\ \A k \in DOMAIN q : k \in Nat \ {0} /\ Len(t) + k > Len(t)
  <2>1. /\ DOMAIN t = 1..Len(t) /\ DOMAIN q = 1..Len(q) /\ DOMAIN p = 1..Len(p)
        /\ Len(t) \in Nat /\ Len(q) \in Nat /\ Len(p) \in Nat
    OBVIOUS
  <2>2. \A k \in DOMAIN q : q[k] = p[Len(t) + k]
    BY DEF Leaves
  <2>3. Len(t) + Len(q) = Len(p)
    BY DEF Leaves
  <2>4. \A k \in DOMAIN p : k \notin DOMAIN t => k - Len(t) \in DOMAIN q /\ Len(t) + (k - Len(t)) = k
    BY <2>1, <2>3
  <2>5. QED
    BY <2>1, <2>2, <2>3, <2>4
<1>4. /\ Ordered(s) /\ Waiting(s, p) /\ Closed(s, p, lost) /\ Exact(s, lost, effects) /\ Once(c)
  BY DEF Good, Shape
<1>5. \A i \in DOMAIN t : t[i].is = "result" /\ t[i].of = p[i] /\ p[i] \in CallsIn(s) /\ p[i] \notin Answered(s)
  BY <1>3, <1>4 DEF Tells, Waiting
<1> HIDE DEF u, w, s
<1>6. \A i \in DOMAIN u : u[i].is # "result" => i \in DOMAIN s
  BY <1>2, <1>5
<1>7. \A x : x \in CallsIn(u) <=> x \in CallsIn(s)
  <2> SUFFICES ASSUME NEW x
               PROVE  (\E i \in DOMAIN u : u[i].is = "call" /\ u[i].of = x) <=>
                      (\E i \in DOMAIN s : s[i].is = "call" /\ s[i].of = x)
    BY Membership
  <2>1. QED
    BY <1>2, <1>6
<1>8. CallsIn(u) = CallsIn(s)
  BY <1>7
<1>9. \A x : x \in Answered(u) <=> x \in Answered(s) \/ \E i \in DOMAIN t : p[i] = x
  <2>1. ASSUME NEW x, x \in Answered(u)
        PROVE  x \in Answered(s) \/ \E i \in DOMAIN t : p[i] = x
    <3>1. PICK i \in DOMAIN u : u[i].is = "result" /\ u[i].of = x
      BY <2>1, Membership
    <3>2. CASE i \in DOMAIN s
      <4>1. s[i].is = "result" /\ s[i].of = x
        BY <1>2, <3>1, <3>2
      <4>2. QED
        BY <3>2, <4>1, Membership
    <3>3. CASE i \notin DOMAIN s
      <4>1. PICK m \in DOMAIN t : u[i] = t[m]
        BY <1>2, <3>3
      <4>2. QED
        BY <1>5, <3>1, <4>1
    <3>4. QED
      BY <3>2, <3>3
  <2>2. ASSUME NEW x, x \in Answered(s)
        PROVE  x \in Answered(u)
    <3>1. PICK i \in DOMAIN s : s[i].is = "result" /\ s[i].of = x
      BY <2>2, Membership
    <3>2. QED
      BY <1>2, <3>1, Membership
  <2>3. ASSUME NEW i \in DOMAIN t
        PROVE  p[i] \in Answered(u)
    <3>1. Len(s) + i \in DOMAIN u /\ u[Len(s) + i].is = "result" /\ u[Len(s) + i].of = p[i]
      BY <1>2, <1>5
    <3>2. QED
      BY <3>1, Membership
  <2>4. QED
    BY <2>1, <2>2, <2>3
<1>10. Carried(w) = Carried(c)
  <2>1. ASSUME NEW x \in Contexts
        PROVE  (\E i \in DOMAIN u : u[i] = Context(x)) <=> (\E i \in DOMAIN s : s[i] = Context(x))
    <3>1. Context(x).is = "context"
      BY Made
    <3>2. QED
      BY <1>2, <1>6, <3>1
  <2>2. QED
    BY <1>1, <2>1 DEF Carried, u, s
<1>11. Ordered(u)
  <2>1. \A i, j \in DOMAIN u : u[i].is = "call" /\ u[j] = u[i] => i = j
    BY <1>2, <1>4, <1>6 DEF Ordered
  <2>2. \A i \in DOMAIN u : u[i].is = "result" => \E j \in DOMAIN u : j < i /\ u[j] = Call(u[i].of)
    <3> SUFFICES ASSUME NEW i \in DOMAIN u, u[i].is = "result"
                 PROVE  \E j \in DOMAIN u : j < i /\ u[j] = Call(u[i].of)
      OBVIOUS
    <3>1. CASE i \in DOMAIN s
      <4>1. PICK j \in DOMAIN s : j < i /\ s[j] = Call(s[i].of)
        BY <1>2, <1>4, <3>1 DEF Ordered
      <4>2. QED
        BY <1>2, <3>1, <4>1
    <3>2. CASE i \notin DOMAIN s
      <4> PICK m \in DOMAIN t : u[i] = t[m] /\ i > Len(s)
        BY <1>2, <3>2
      <4>1. u[i].of \in CallsIn(s) /\ i > Len(s)
        BY <1>5
      <4>2. PICK j \in DOMAIN s : s[j].is = "call" /\ s[j].of = u[i].of
        BY <4>1, Membership
      <4>3. s[j] = Call(u[i].of)
        BY <1>2, <4>2, EntryKinds
      <4>4. j < i
        BY <1>2, <4>1
      <4>5. QED
        BY <1>2, <4>3, <4>4
    <3>3. QED
      BY <3>1, <3>2
  <2>3. \A i, j \in DOMAIN u : u[i].is = "result" /\ u[j].is = "result" /\ u[j].of = u[i].of => i = j
    <3> SUFFICES ASSUME NEW i \in DOMAIN u, NEW j \in DOMAIN u,
                        u[i].is = "result", u[j].is = "result", u[j].of = u[i].of
                 PROVE  i = j
      OBVIOUS
    <3>1. CASE i \in DOMAIN s /\ j \in DOMAIN s
      BY <1>2, <1>4, <3>1 DEF Ordered
    <3>2. CASE i \notin DOMAIN s /\ j \notin DOMAIN s
      <4>1. p[i - Len(s)] = p[j - Len(s)] /\ i - Len(s) \in DOMAIN p /\ j - Len(s) \in DOMAIN p
        BY <1>2, <1>3, <1>5, <3>2
      <4>2. i - Len(s) = j - Len(s)
        BY <1>4, <4>1 DEF Waiting
      <4>3. QED
        BY <1>2, <4>2
    <3>3. CASE i \in DOMAIN s /\ j \notin DOMAIN s
      <4>1. u[i].of \in Answered(s)
        BY <1>2, <3>3, Membership
      <4>2. PICK m \in DOMAIN t : u[j] = t[m]
        BY <1>2, <3>3
      <4>3. u[j].of \notin Answered(s)
        BY <1>5, <4>2
      <4>4. QED
        BY <4>1, <4>3
    <3>4. CASE i \notin DOMAIN s /\ j \in DOMAIN s
      <4>1. u[j].of \in Answered(s)
        BY <1>2, <3>4, Membership
      <4>2. PICK m \in DOMAIN t : u[i] = t[m]
        BY <1>2, <3>4
      <4>3. u[i].of \notin Answered(s)
        BY <1>5, <4>2
      <4>4. QED
        BY <4>1, <4>3
    <3>5. QED
      BY <3>1, <3>2, <3>3, <3>4
  <2>4. QED
    BY <2>1, <2>2, <2>3 DEF Ordered
<1>12. Waiting(u, q)
  <2>1. \A k, l \in DOMAIN q : q[k] = q[l] => k = l
    <3> SUFFICES ASSUME NEW k \in DOMAIN q, NEW l \in DOMAIN q, q[k] = q[l]
                 PROVE  k = l
      OBVIOUS
    <3>1. Len(t) + k = Len(t) + l
      BY <1>3, <1>4 DEF Waiting, Leaves
    <3>2. QED
      BY <1>3, <3>1
  <2>2. ASSUME NEW k \in DOMAIN q
        PROVE  q[k] \in CallsIn(u) \ Answered(u)
    <3>1. q[k] \in CallsIn(s) /\ q[k] \notin Answered(s)
      BY <1>3, <1>4 DEF Waiting, Leaves
    <3>2. ASSUME NEW i \in DOMAIN t, p[i] = q[k]
          PROVE  FALSE
      <4>1. i = Len(t) + k
        BY <1>3, <1>4, <3>2 DEF Waiting, Leaves
      <4>2. QED
        BY <1>3, <4>1
    <3>3. QED
      BY <1>8, <1>9, <3>1, <3>2
  <2>3. QED
    BY <2>1, <2>2 DEF Waiting
<1>13. Closed(u, q, lost)
  <2> SUFFICES ASSUME NEW i \in DOMAIN u, u[i].is = "call", u[i].of \notin lost
               PROVE  /\ u[i].of \in Answered(u) \union Range(q)
                      /\ \A j \in DOMAIN u : j > i /\ u[j].is \notin {"call", "result"} =>
                           \E k \in DOMAIN u : k < j /\ u[k].is = "result" /\ u[k].of = u[i].of
    BY DEF Closed
  <2>1. i \in DOMAIN s /\ u[i] = s[i]
    BY <1>2, <1>6
  <2>2. u[i].of \in Answered(s) \union Range(p)
    BY <1>4, <2>1 DEF Closed
  <2>3. u[i].of \in Answered(u) \union Range(q)
    <3>1. CASE u[i].of \in Answered(s)
      BY <1>9, <3>1
    <3>2. CASE u[i].of \in Range(p)
      <4>1. PICK k \in DOMAIN p : p[k] = u[i].of
        BY <3>2 DEF Range
      <4>2. CASE k \in DOMAIN t
        BY <1>9, <4>1, <4>2
      <4>3. CASE k \notin DOMAIN t
        BY <1>3, <4>1, <4>3 DEF Range
      <4>4. QED
        BY <4>2, <4>3
    <3>3. QED
      BY <2>2, <3>1, <3>2
  <2>4. ASSUME NEW j \in DOMAIN u, j > i, u[j].is \notin {"call", "result"}
        PROVE  \E k \in DOMAIN u : k < j /\ u[k].is = "result" /\ u[k].of = u[i].of
    <3>1. j \in DOMAIN s /\ u[j] = s[j]
      BY <1>2, <1>6, <2>4
    <3>2. PICK k \in DOMAIN s : k < j /\ s[k].is = "result" /\ s[k].of = s[i].of
      BY <1>4, <2>1, <2>4, <3>1 DEF Closed
    <3>3. QED
      BY <1>2, <2>1, <3>2
  <2>5. QED
    BY <2>3, <2>4
<1>14. Exact(u, lost, effects)
  <2> SUFFICES ASSUME NEW i \in DOMAIN u, u[i].is = "result", u[i].of \notin lost
               PROVE  /\ u[i].how = "known" <=> effects[u[i].of] = "known"
                      /\ u[i].how = "skipped" => effects[u[i].of] = "none"
    BY DEF Exact
  <2>1. CASE i \in DOMAIN s
    BY <1>2, <1>4, <2>1 DEF Exact
  <2>2. CASE i \notin DOMAIN s
    <3>1. PICK k \in DOMAIN t : u[i] = t[k]
      BY <1>2, <2>2
    <3>2. QED
      BY <3>1 DEF Tells
  <2>3. QED
    BY <2>1, <2>2
<1>15. Once(w)
  <2>1. \A i \in DOMAIN u : u[i].is \in {"call", "context"} => i \in DOMAIN s /\ u[i] = s[i]
    BY <1>2, <1>6
  <2>2. \A i, j \in DOMAIN u : u[i].is = "context" /\ u[j] = u[i] => i = j
    BY <1>4, <2>1 DEF Once, s
  <2>3. \A i \in DOMAIN u : u[i].is \in {"call", "context"} => u[i].of \notin w.gone
    BY <1>1, <1>4, <2>1 DEF Once, s, w
  <2>4. QED
    BY <2>2, <2>3 DEF Once, u
<1>16. QED
  BY <1>8, <1>10, <1>11, <1>12, <1>13, <1>14, <1>15 DEF Good, Shape, u, w, s

\* New calls, where no call waits.
LEMMA SayCalls ==
    ASSUME NEW c \in Conversations, NEW t \in Seq(Entries), NEW p, NEW q \in Seq(Calls),
           NEW lost, NEW effects,
           Good(c, p, lost, effects), \A k \in DOMAIN p : p[k] \in lost,
           Len(t) = Len(q), \A i \in DOMAIN t : t[i] = Call(q[i]),
           \A k, l \in DOMAIN q : q[k] = q[l] => k = l,
           \A k \in DOMAIN q : q[k] \notin CallsIn(c.entries) \union c.gone
    PROVE  /\ Good(With(c, t), q, lost, effects)
           /\ Carried(With(c, t)) = Carried(c)
           /\ CallsIn(c.entries) \subseteq CallsIn(With(c, t).entries)
<1> DEFINE s == c.entries
           w == With(c, t)
           u == w.entries
<1>1. /\ u = s \o t /\ w.gone = c.gone /\ s \in Seq(Entries)
  BY Said
<1>2. /\ \A i \in DOMAIN s : i \in DOMAIN u /\ u[i] = s[i] /\ i <= Len(s) /\ i \in Nat
      /\ \A i \in DOMAIN t : Len(s) + i \in DOMAIN u /\ u[Len(s) + i] = t[i] /\ i \in Nat \ {0}
      /\ \A i \in DOMAIN u : \/ i \in DOMAIN s
                             \/ i > Len(s) /\ i - Len(s) \in DOMAIN t /\ u[i] = t[i - Len(s)]
      /\ \A i \in DOMAIN u : i \in Nat /\ u[i] \in Entries
      /\ Len(s) \in Nat /\ s \in Seq(Entries)
  BY <1>1, Joined
<1>3. DOMAIN t = DOMAIN q /\ \A i \in DOMAIN t : q[i] \in Calls
  BY DOMAIN t = 1..Len(t), DOMAIN q = 1..Len(q)
<1>4. /\ Ordered(s) /\ Closed(s, p, lost) /\ Exact(s, lost, effects) /\ Once(c)
  BY DEF Good, Shape
<1>5. \A i \in DOMAIN t : t[i].is = "call" /\ t[i].of = q[i]
  BY <1>3, Made
<1> HIDE DEF u, w, s
<1>6. \A i \in DOMAIN u : i \notin DOMAIN s =>
         /\ u[i].is = "call" /\ i > Len(s)
         /\ \E k \in DOMAIN q : i = Len(s) + k /\ u[i].of = q[k] /\ u[i] = Call(q[k])
  <2> SUFFICES ASSUME NEW i \in DOMAIN u, i \notin DOMAIN s
               PROVE  /\ u[i].is = "call" /\ i > Len(s)
                      /\ \E k \in DOMAIN q : i = Len(s) + k /\ u[i].of = q[k] /\ u[i] = Call(q[k])
    OBVIOUS
  <2>1. PICK k \in DOMAIN t : i = Len(s) + k /\ u[i] = t[k] /\ i > Len(s)
    BY <1>2
  <2>2. QED
    BY <1>3, <1>5, <2>1
<1>7. \A i \in DOMAIN s : s[i].is = "result" => s[i].of \in CallsIn(s)
  <2> SUFFICES ASSUME NEW i \in DOMAIN s, s[i].is = "result"
               PROVE  s[i].of \in CallsIn(s)
    OBVIOUS
  <2>1. PICK j \in DOMAIN s : s[j] = Call(s[i].of)
    BY <1>4 DEF Ordered
  <2>2. s[j].is = "call" /\ s[j].of = s[i].of
    BY <2>1 DEF Call
  <2>3. QED
    BY <2>2, Membership
<1>8. ASSUME NEW x
      PROVE  x \in Answered(u) <=> x \in Answered(s)
  <2> SUFFICES (\E i \in DOMAIN u : u[i].is = "result" /\ u[i].of = x) <=>
               (\E i \in DOMAIN s : s[i].is = "result" /\ s[i].of = x)
    BY Membership
  <2>1. QED
    BY <1>2, <1>6
<1>9. ASSUME NEW x, x \in CallsIn(s)
      PROVE  x \in CallsIn(u)
  <2>1. PICK i \in DOMAIN s : s[i].is = "call" /\ s[i].of = x
    BY <1>9, Membership
  <2>2. QED
    BY <1>2, <2>1, Membership
<1>10. ASSUME NEW k \in DOMAIN q
       PROVE  q[k] \in CallsIn(u) /\ q[k] \notin Answered(u)
  <2>1. Len(s) + k \in DOMAIN u /\ u[Len(s) + k].is = "call" /\ u[Len(s) + k].of = q[k]
    BY <1>2, <1>3, <1>5
  <2>2. q[k] \in CallsIn(u)
    BY <2>1, Membership
  <2>3. q[k] \notin Answered(s)
    <3>1. SUFFICES ASSUME NEW i \in DOMAIN s, s[i].is = "result", s[i].of = q[k]
                   PROVE  FALSE
      BY Membership
    <3>2. QED
      BY <1>7, <3>1 DEF s
  <2>4. QED
    BY <1>8, <2>2, <2>3
<1>11. Carried(w) = Carried(c)
  <2>1. ASSUME NEW x \in Contexts
        PROVE  (\E i \in DOMAIN u : u[i] = Context(x)) <=> (\E i \in DOMAIN s : s[i] = Context(x))
    <3>1. Context(x).is = "context"
      BY Made
    <3>2. QED
      BY <1>2, <1>6, <3>1
  <2>2. QED
    BY <1>1, <2>1 DEF Carried, u, s
<1>12. Ordered(u)
  <2>1. ASSUME NEW i \in DOMAIN u, NEW j \in DOMAIN u, u[i].is = "call", u[j] = u[i]
        PROVE  i = j
    <3>1. CASE i \in DOMAIN s /\ j \in DOMAIN s
      BY <1>2, <1>4, <2>1, <3>1 DEF Ordered
    <3>2. CASE i \notin DOMAIN s /\ j \notin DOMAIN s
      BY <1>6, <2>1, <3>2
    <3>3. CASE i \in DOMAIN s /\ j \notin DOMAIN s
      <4>1. u[i].of \in CallsIn(s)
        BY <1>2, <2>1, <3>3, Membership
      <4>2. u[j].of \notin CallsIn(s)
        BY <1>6, <3>3 DEF s
      <4>3. QED
        BY <2>1, <4>1, <4>2
    <3>4. CASE i \notin DOMAIN s /\ j \in DOMAIN s
      <4>1. u[j].of \in CallsIn(s)
        BY <1>2, <2>1, <3>4, Membership
      <4>2. u[i].of \notin CallsIn(s)
        BY <1>6, <3>4 DEF s
      <4>3. QED
        BY <2>1, <4>1, <4>2
    <3>5. QED
      BY <3>1, <3>2, <3>3, <3>4
  <2>2. \A i \in DOMAIN u : u[i].is = "result" => i \in DOMAIN s /\ u[i] = s[i]
    BY <1>2, <1>6
  <2>3. \A i, j \in DOMAIN u : u[i].is = "result" /\ u[j].is = "result" /\ u[j].of = u[i].of => i = j
    BY <1>4, <2>2 DEF Ordered
  <2>4. \A i \in DOMAIN u : u[i].is = "result" => \E j \in DOMAIN u : j < i /\ u[j] = Call(u[i].of)
    <3> SUFFICES ASSUME NEW i \in DOMAIN u, u[i].is = "result"
                 PROVE  \E j \in DOMAIN u : j < i /\ u[j] = Call(u[i].of)
      OBVIOUS
    <3>1. PICK j \in DOMAIN s : j < i /\ s[j] = Call(s[i].of)
      BY <1>4, <2>2 DEF Ordered
    <3>2. QED
      BY <1>2, <2>2, <3>1
  <2>5. QED
    BY <2>1, <2>3, <2>4 DEF Ordered
<1>13. Waiting(u, q)
  BY <1>10 DEF Waiting
<1>14. Closed(u, q, lost)
  <2> SUFFICES ASSUME NEW i \in DOMAIN u, u[i].is = "call", u[i].of \notin lost
               PROVE  /\ u[i].of \in Answered(u) \union Range(q)
                      /\ \A j \in DOMAIN u : j > i /\ u[j].is \notin {"call", "result"} =>
                           \E k \in DOMAIN u : k < j /\ u[k].is = "result" /\ u[k].of = u[i].of
    BY DEF Closed
  <2>1. CASE i \in DOMAIN s
    <3>1. u[i] = s[i]
      BY <1>2, <2>1
    <3>2. u[i].of \in Answered(s)
      BY <1>4, <2>1, <3>1 DEF Closed, Range
    <3>3. ASSUME NEW j \in DOMAIN u, j > i, u[j].is \notin {"call", "result"}
          PROVE  \E k \in DOMAIN u : k < j /\ u[k].is = "result" /\ u[k].of = u[i].of
      <4>1. j \in DOMAIN s /\ u[j] = s[j]
        BY <1>2, <1>6, <3>3
      <4>2. PICK k \in DOMAIN s : k < j /\ s[k].is = "result" /\ s[k].of = s[i].of
        BY <1>4, <2>1, <3>1, <3>3, <4>1 DEF Closed
      <4>3. QED
        BY <1>2, <3>1, <4>2
    <3>4. QED
      BY <1>8, <3>2, <3>3
  <2>2. CASE i \notin DOMAIN s
    <3>1. u[i].of \in Range(q) /\ i > Len(s)
      BY <1>6, <2>2 DEF Range
    <3>2. \A j \in DOMAIN u : j > i => u[j].is = "call"
      BY <1>2, <1>6, <3>1
    <3>3. QED
      BY <3>1, <3>2
  <2>3. QED
    BY <2>1, <2>2
<1>15. Exact(u, lost, effects)
  BY <1>2, <1>4, <1>6 DEF Exact
<1>16. Once(w)
  <2>1. \A i \in DOMAIN u : u[i].is = "context" => i \in DOMAIN s /\ u[i] = s[i]
    BY <1>2, <1>6
  <2>2. \A i, j \in DOMAIN u : u[i].is = "context" /\ u[j] = u[i] => i = j
    BY <1>4, <2>1 DEF Once, s
  <2>3. ASSUME NEW i \in DOMAIN u, u[i].is \in {"call", "context"}
        PROVE  u[i].of \notin w.gone
    <3>1. CASE i \in DOMAIN s
      BY <1>1, <1>2, <1>4, <2>3, <3>1 DEF Once, s, w
    <3>2. CASE i \notin DOMAIN s
      BY <1>1, <1>6, <3>2 DEF w
    <3>3. QED
      BY <3>1, <3>2
  <2>4. QED
    BY <2>2, <2>3 DEF Once, u
<1>17. Shape(u, q, lost)
  BY <1>12, <1>13, <1>14 DEF Shape
<1>18. CallsIn(s) \subseteq CallsIn(u)
  BY <1>9
<1>19. QED
  BY <1>11, <1>15, <1>16, <1>17, <1>18 DEF Good, u, w, s

-----------------------------------------------------------------------------
(* What a summary leaves.                                                  *)
LEMMA Greatest ==
    ASSUME NEW n \in Nat, NEW T \in SUBSET (0..n), T # {}
    PROVE  \E b \in T : \A x \in T : x <= b
<1> DEFINE D == {n - x : x \in T}
<1>1. D \in SUBSET Nat /\ D # {}
  <2>1. \A x \in T : n - x \in Nat /\ n - x \in D
    OBVIOUS
  <2>2. PICK x \in T : TRUE
    OBVIOUS
  <2>3. QED
    BY <2>1, <2>2
<1>2. IsWellFoundedOn(OpToRel(<, Nat), Nat)
  BY NatLessThanWellFounded
<1>3. PICK d \in D : \A e \in D : ~(<<e, d>> \in OpToRel(<, Nat))
  BY <1>1, <1>2, WFMin
<1>4. \A e \in D : d <= e
  <2> SUFFICES ASSUME NEW e \in D, e < d
               PROVE  FALSE
    BY <1>1
  <2>1. <<e, d>> \in OpToRel(<, Nat)
    BY <1>1 DEF OpToRel
  <2>2. QED
    BY <1>3, <2>1
<1>5. PICK b \in T : d = n - b
  OBVIOUS
<1>6. ASSUME NEW x \in T
      PROVE  x <= b
  <2>1. n - x \in D
    OBVIOUS
  <2>2. QED
    BY <1>4, <1>5, <2>1
<1>7. QED
  BY <1>5, <1>6

LEMMA SecondLast ==
    ASSUME NEW n \in Nat, NEW T \in SUBSET (0..n), Cardinality(T) > 2
    PROVE  \E b \in T : Cardinality({x \in T : x > b}) = 2
<1> DEFINE R == 0..n
<1>1. IsFiniteSet(R)
  BY FS_Interval
<1> HIDE DEF R
<1>2. IsFiniteSet(T) /\ Cardinality(T) \in Nat
  BY <1>1, FS_Subset, FS_CardinalityType DEF R
<1>3. PICK m \in T : \A x \in T : x <= m
  <2>1. T # {}
    BY <1>2, FS_EmptySet
  <2>2. QED
    BY <2>1, Greatest
<1> DEFINE U == T \ {m}
<1>4. IsFiniteSet(U) /\ Cardinality(U) = Cardinality(T) - 1
  BY <1>2, FS_RemoveElement
<1>5. U \in SUBSET (0..n) /\ U # {}
  BY <1>2, <1>4, FS_EmptySet
<1>6. PICK l \in U : \A x \in U : x <= l
  BY <1>5, Greatest
<1> DEFINE V == U \ {l}
<1>7. Cardinality(V) = Cardinality(U) - 1 /\ IsFiniteSet(V)
  BY <1>4, FS_RemoveElement
<1>8. V \in SUBSET (0..n) /\ V # {}
  BY <1>2, <1>4, <1>5, <1>7, FS_EmptySet
<1>9. PICK b \in V : \A x \in V : x <= b
  BY <1>8, Greatest
<1>10. \A x \in T : x > b <=> x = l \/ x = m
  <2>1. b \in Nat /\ l \in Nat /\ m \in Nat /\ \A x \in T : x \in Nat
    OBVIOUS
  <2>2. b < l /\ l < m
    BY <1>3, <1>6, <1>9, <2>1
  <2>3. \A x \in T : x = m \/ x = l \/ x <= b
    BY <1>9
  <2>4. QED
    BY <2>1, <2>2, <2>3
<1>11. {x \in T : x > b} = {l} \union {m}
  BY <1>10
<1>12. Cardinality({l} \union {m}) = 2
  <2>1. IsFiniteSet({l}) /\ Cardinality({l}) = 1 /\ m \notin {l}
    BY FS_Singleton
  <2>2. QED
    BY <2>1, FS_AddElement
<1>13. QED
  BY <1>11, <1>12

LEMMA Recent ==
    ASSUME NEW s \in Seq(Entries), MayCompact(s)
    PROVE  \E b \in 0..Len(s) : /\ Complete(SubSeq(s, 1, b))
                                /\ RecentUnits(s) = SubSeq(s, b + 1, Len(s))
<1>1. Len(s) \in Nat /\ Boundaries(s) \in SUBSET (0..Len(s))
  BY DEF Boundaries
<1> DEFINE B == Boundaries(s)
<1>2. Cardinality(B) \in Nat
  <2> DEFINE R == 0..Len(s)
  <2>1. IsFiniteSet(R)
    BY <1>1, FS_Interval
  <2> HIDE DEF R
  <2>2. IsFiniteSet(B)
    BY <1>1, <2>1, FS_Subset DEF R
  <2>3. QED
    BY <2>2, FS_CardinalityType
<1>3. \E b \in B : Cardinality({x \in B : x > b}) = 2
  <2>1. Cardinality(B) > 2 /\ B \in SUBSET (0..Len(s))
    BY <1>1, <1>2 DEF MayCompact
  <2> HIDE DEF B
  <2>2. QED
    BY <1>1, <2>1, SecondLast
<1> DEFINE start == CHOOSE b \in Boundaries(s) : Cardinality({x \in Boundaries(s) : x > b}) = 2
<1>4. start \in Boundaries(s)
  BY <1>3
<1>5. RecentUnits(s) = SubSeq(s, start + 1, Len(s))
  BY DEF RecentUnits
<1> HIDE DEF start
<1>6. QED
  BY <1>4, <1>5 DEF Boundaries

LEMMA Kept ==
    ASSUME NEW s \in Seq(Entries), NEW b \in 0..Len(s)
    PROVE  LET k == SubSeq(s, b + 1, Len(s))
               u == <<Summary, Prompt>> \o k
               d == SubSeq(s, 1, Len(s) - Len(k))
           IN  /\ u \in Seq(Entries) /\ DOMAIN u = 1..(Len(s) - b + 2)
               /\ u[1] = Summary /\ u[2] = Prompt
               /\ \A i \in 1..(Len(s) - b) : u[i + 2] = s[b + i]
               /\ d = SubSeq(s, 1, b) /\ DOMAIN d = 1..b
               /\ \A i \in 1..b : d[i] = s[i]
<1> DEFINE k == SubSeq(s, b + 1, Len(s))
           a == <<Summary, Prompt>>
           d == SubSeq(s, 1, b)
<1>1. /\ k \in Seq(Entries) /\ Len(k) = Len(s) - b
      /\ \A i \in 1..(Len(s) - b) : k[i] = s[b + i]
  <2>1. /\ b + 1 \in Int /\ Len(s) \in Int /\ \A i \in (b + 1)..Len(s) : s[i] \in Entries
        /\ \A i \in 1..(Len(s) - b) : (b + 1) + i - 1 = b + i
        /\ Len(s) - (b + 1) + 1 = Len(s) - b
    OBVIOUS
  <2>2. /\ k \in Seq(Entries)
        /\ Len(k) = IF b + 1 <= Len(s) THEN Len(s) - (b + 1) + 1 ELSE 0
        /\ \A i \in 1..(Len(s) - (b + 1) + 1) : k[i] = s[(b + 1) + i - 1]
    BY <2>1, SubSeqProperties
  <2> HIDE DEF k
  <2>3. Len(s) \in Nat /\ b \in Nat /\ b <= Len(s)
    OBVIOUS
  <2>4. Len(k) = Len(s) - b
    BY <2>2, <2>3
  <2>5. ASSUME NEW i \in 1..(Len(s) - b)
        PROVE  k[i] = s[b + i]
    <3>1. i \in 1..(Len(s) - (b + 1) + 1)
      BY <2>3
    <3>2. k[i] = s[(b + 1) + i - 1]
      BY <2>2, <3>1
    <3>3. (b + 1) + i - 1 = b + i
      BY <2>3
    <3>4. QED
      BY <3>2, <3>3
  <2>6. QED
    BY <2>2, <2>4, <2>5
<1>2. a \in Seq(Entries) /\ Len(a) = 2 /\ a[1] = Summary /\ a[2] = Prompt
  BY Made
<1>3. /\ d \in Seq(Entries) /\ Len(d) = b /\ \A i \in 1..b : d[i] = s[i]
  <2>1. /\ b \in Int /\ \A i \in 1..b : s[i] \in Entries
        /\ \A i \in 1..b : 1 + i - 1 = i
        /\ b - 1 + 1 = b
    OBVIOUS
  <2>2. /\ d \in Seq(Entries)
        /\ Len(d) = IF 1 <= b THEN b - 1 + 1 ELSE 0
        /\ \A i \in 1..(b - 1 + 1) : d[i] = s[1 + i - 1]
    BY <2>1, SubSeqProperties
  <2> HIDE DEF d
  <2>3. QED
    BY <2>1, <2>2
<1>4. Len(s) - Len(k) = b
  BY <1>1
<1> HIDE DEF k, a, d
<1>5. /\ a \o k \in Seq(Entries) /\ Len(a \o k) = 2 + (Len(s) - b)
      /\ \A i \in 1..(2 + (Len(s) - b)) : (a \o k)[i] = IF i <= 2 THEN a[i] ELSE k[i - 2]
  <2>1. /\ a \o k \in Seq(Entries) /\ Len(a \o k) = Len(a) + Len(k)
        /\ \A i \in 1..(Len(a) + Len(k)) :
              (a \o k)[i] = IF i <= Len(a) THEN a[i] ELSE k[i - Len(a)]
    BY <1>1, <1>2, ConcatProperties
  <2>2. Len(a) + Len(k) = 2 + (Len(s) - b) /\ Len(a) = 2
    BY <1>1, <1>2
  <2>3. QED
    BY <2>1, <2>2
<1>6. /\ DOMAIN (a \o k) = 1..(Len(s) - b + 2)
      /\ (a \o k)[1] = Summary /\ (a \o k)[2] = Prompt
  <2>1. 1 \in 1..(2 + (Len(s) - b)) /\ 2 \in 1..(2 + (Len(s) - b)) /\ 2 + (Len(s) - b) = Len(s) - b + 2
    OBVIOUS
  <2>2. (a \o k)[1] = a[1] /\ (a \o k)[2] = a[2]
    BY <1>5, <2>1
  <2>3. DOMAIN (a \o k) = 1..Len(a \o k)
    BY <1>5
  <2>4. QED
    BY <1>2, <1>5, <2>1, <2>2, <2>3
<1>7. ASSUME NEW i \in 1..(Len(s) - b)
      PROVE  (a \o k)[i + 2] = s[b + i]
  <2>1. i + 2 \in 1..(2 + (Len(s) - b)) /\ ~(i + 2 <= 2) /\ (i + 2) - 2 = i
    OBVIOUS
  <2>2. (a \o k)[i + 2] = k[i]
    BY <1>5, <2>1
  <2>3. QED
    BY <1>1, <2>2
<1>8. DOMAIN d = 1..b
  BY <1>3
<1>9. SubSeq(s, 1, Len(s) - Len(k)) = d
  BY <1>4 DEF d
<1>10. QED
  BY <1>3, <1>5, <1>6, <1>7, <1>8, <1>9 DEF k, a

\* The summary of a conversation in which no call waits.
LEMMA Compacted ==
    ASSUME NEW c \in Conversations, NEW lost, NEW effects,
           Good(c, <<>>, lost, effects), MayCompact(c.entries)
    PROVE  LET r == Replacement(c)
           IN  /\ r \in Conversations /\ Good(r, <<>>, lost, effects)
               /\ Carried(r) = Carried(c)
<1> DEFINE s == c.entries
           r == Replacement(c)
           u == r.entries
<1>1. s \in Seq(Entries) /\ c.gone \subseteq Calls \union Contexts
  BY DEF Conversations
<1>2. PICK b \in 0..Len(s) : /\ Complete(SubSeq(s, 1, b))
                             /\ RecentUnits(s) = SubSeq(s, b + 1, Len(s))
  BY <1>1, Recent
<1> DEFINE d == SubSeq(s, 1, b)
<1>3. /\ u \in Seq(Entries) /\ DOMAIN u = 1..(Len(s) - b + 2)
      /\ u[1] = Summary /\ u[2] = Prompt
      /\ \A i \in 1..(Len(s) - b) : u[i + 2] = s[b + i]
      /\ r = [entries |-> u, gone |-> c.gone \union ({d[i].of : i \in DOMAIN d} \ {None})]
      /\ DOMAIN d = 1..b /\ \A i \in 1..b : d[i] = s[i]
  <2>1. PICK k : k = SubSeq(s, b + 1, Len(s))
    OBVIOUS
  <2>2. PICK e : e = <<Summary, Prompt>> \o k
    OBVIOUS
  <2>3. r = [entries |-> e, gone |-> c.gone \union ({d[i].of : i \in DOMAIN d} \ {None})]
    <3>1. SubSeq(s, 1, Len(s) - Len(k)) = d
      BY <1>1, <2>1, Kept
    <3>2. RecentUnits(s) = k
      BY <1>2, <2>1
    <3> HIDE DEF d
    <3>3. QED
      BY <2>2, <3>1, <3>2, Zenon DEF Replacement
  <2>4. /\ e \in Seq(Entries) /\ DOMAIN e = 1..(Len(s) - b + 2)
        /\ e[1] = Summary /\ e[2] = Prompt
        /\ \A i \in 1..(Len(s) - b) : e[i + 2] = s[b + i]
        /\ DOMAIN d = 1..b /\ \A i \in 1..b : d[i] = s[i]
    BY <1>1, <2>1, <2>2, Kept
  <2>5. u = e
    BY <2>3
  <2>6. QED
    BY <2>3, <2>4, <2>5

<1>4. /\ Ordered(s) /\ Closed(s, <<>>, lost) /\ Exact(s, lost, effects) /\ Once(c)
      /\ CallsIn(d) = Answered(d) /\ Len(s) \in Nat /\ b \in Nat /\ b <= Len(s)
      /\ DOMAIN s = 1..Len(s)
  BY <1>1, <1>2 DEF Good, Shape, Complete
<1>5. \A i \in DOMAIN s : s[i] \in Entries
  BY <1>1
<1> HIDE DEF s, u, d, r
<1>6. ASSUME NEW i \in DOMAIN u, u[i].is \in {"call", "result", "context", "answer", "note"}
      PROVE  /\ i \in Nat /\ i > 2
             /\ i - 2 + b \in DOMAIN s /\ i - 2 + b > b /\ u[i] = s[i - 2 + b]
  <2>1. i # 1 /\ i # 2
    BY <1>3, <1>6, Made
  <2>2. i - 2 \in 1..(Len(s) - b) /\ i \in Nat /\ i > 2 /\ (i - 2) + 2 = i /\ b + (i - 2) = i - 2 + b
    BY <1>3, <1>4, <2>1
  <2>3. QED
    BY <1>3, <1>4, <2>2
<1>7. ASSUME NEW j \in DOMAIN s, j > b
      PROVE  j - b + 2 \in DOMAIN u /\ u[j - b + 2] = s[j]
  <2>1. j - b \in 1..(Len(s) - b) /\ b + (j - b) = j /\ j - b + 2 \in 1..(Len(s) - b + 2)
    BY <1>4, <1>7
  <2>2. QED
    BY <1>3, <2>1
<1>8. ASSUME NEW i \in DOMAIN s, i > b, s[i].is = "result"
      PROVE  \E j \in DOMAIN s : b < j /\ j < i /\ s[j] = Call(s[i].of)
  <2>1. PICK j \in DOMAIN s : j < i /\ s[j] = Call(s[i].of)
    BY <1>4, <1>8 DEF Ordered
  <2>2. CASE j > b
    BY <2>1, <2>2
  <2>3. CASE j <= b
    <3>1. j \in DOMAIN d /\ d[j] = s[j] /\ d[j].is = "call" /\ d[j].of = s[i].of
      BY <1>3, <1>4, <2>1, <2>3 DEF Call
    <3>2. s[i].of \in Answered(d)
      BY <1>4, <3>1, Membership
    <3>3. PICK m \in DOMAIN d : d[m].is = "result" /\ d[m].of = s[i].of
      BY <3>2, Membership
    <3>4. m \in DOMAIN s /\ m <= b /\ s[m] = d[m]
      BY <1>3, <1>4
    <3>5. m = i
      BY <1>4, <1>8, <3>3, <3>4 DEF Ordered
    <3>6. QED
      BY <1>4, <1>8, <3>4, <3>5
  <2>4. QED
    BY <1>4, <2>2, <2>3
<1>9. ASSUME NEW i \in DOMAIN s, i > b, s[i].is = "call",
             NEW m \in DOMAIN s, s[m].is = "result", s[m].of = s[i].of
      PROVE  m > b
  <2>1. PICK j \in DOMAIN s : j < m /\ s[j] = Call(s[m].of)
    BY <1>4, <1>9 DEF Ordered
  <2>2. s[i] = Call(s[i].of)
    BY <1>5, <1>9, EntryKinds
  <2>3. j = i
    BY <1>4, <1>9, <2>1, <2>2 DEF Ordered
  <2>4. QED
    BY <1>4, <1>9, <2>1, <2>3
<1>10. Ordered(u)
  <2>1. ASSUME NEW i \in DOMAIN u, NEW j \in DOMAIN u, u[i].is = "call", u[j] = u[i]
        PROVE  i = j
    <3>1. i - 2 + b = j - 2 + b
      BY <1>4, <1>6, <2>1 DEF Ordered
    <3>2. QED
      BY <1>4, <1>6, <2>1, <3>1
  <2>2. ASSUME NEW i \in DOMAIN u, NEW j \in DOMAIN u,
               u[i].is = "result", u[j].is = "result", u[j].of = u[i].of
        PROVE  i = j
    <3>1. i - 2 + b = j - 2 + b
      BY <1>4, <1>6, <2>2 DEF Ordered
    <3>2. QED
      BY <1>4, <1>6, <2>2, <3>1
  <2>3. ASSUME NEW i \in DOMAIN u, u[i].is = "result"
        PROVE  \E j \in DOMAIN u : j < i /\ u[j] = Call(u[i].of)
    <3>1. PICK m \in DOMAIN s : m = i - 2 + b /\ m > b /\ u[i] = s[m]
      BY <1>6, <2>3
    <3>2. PICK j \in DOMAIN s : b < j /\ j < m /\ s[j] = Call(s[m].of)
      BY <1>8, <2>3, <3>1
    <3>3. j - b + 2 \in DOMAIN u /\ u[j - b + 2] = s[j]
      BY <1>4, <1>7, <3>2
    <3>4. j - b + 2 < i
      BY <1>4, <1>6, <2>3, <3>1, <3>2
    <3>5. QED
      BY <3>1, <3>2, <3>3, <3>4
  <2>4. QED
    BY <2>1, <2>2, <2>3 DEF Ordered
<1>11. Closed(u, <<>>, lost)
  <2> SUFFICES ASSUME NEW i \in DOMAIN u, u[i].is = "call", u[i].of \notin lost
               PROVE  /\ u[i].of \in Answered(u) \union Range(<<>>)
                      /\ \A j \in DOMAIN u : j > i /\ u[j].is \notin {"call", "result"} =>
                           \E k \in DOMAIN u : k < j /\ u[k].is = "result" /\ u[k].of = u[i].of
    BY DEF Closed
  <2>1. PICK n \in DOMAIN s : n = i - 2 + b /\ n > b /\ u[i] = s[n] /\ i > 2 /\ i \in Nat
    BY <1>6
  <2>2. s[n].of \in Answered(s)
    BY <1>4, <2>1 DEF Closed, Range
  <2>3. PICK m \in DOMAIN s : s[m].is = "result" /\ s[m].of = s[n].of
    BY <2>2, Membership
  <2>4. m > b
    BY <1>9, <2>1, <2>3
  <2>5. m - b + 2 \in DOMAIN u /\ u[m - b + 2].is = "result" /\ u[m - b + 2].of = u[i].of
    BY <1>7, <2>1, <2>3, <2>4
  <2>6. u[i].of \in Answered(u)
    BY <2>5, Membership
  <2>7. ASSUME NEW j \in DOMAIN u, j > i, u[j].is \notin {"call", "result"}
        PROVE  m - b + 2 < j
    <3>1. j - 2 \in 1..(Len(s) - b) /\ (j - 2) + 2 = j /\ b + (j - 2) = j - 2 + b /\ j - 2 + b \in DOMAIN s
      BY <1>3, <1>4, <2>1, <2>7
    <3>2. u[j] = s[j - 2 + b] /\ j - 2 + b > n
      <4>1. PICK l \in 1..(Len(s) - b) : l = j - 2 /\ l + 2 = j /\ b + l = j - 2 + b
        BY <3>1
      <4>2. u[l + 2] = s[b + l]
        BY <1>3
      <4>3. j - 2 + b > n
        BY <1>4, <2>1, <2>7, <4>1
      <4>4. QED
        BY <4>1, <4>2, <4>3
    <3>3. PICK k \in DOMAIN s : k < j - 2 + b /\ s[k].is = "result" /\ s[k].of = s[n].of
      BY <1>4, <2>1, <2>7, <3>1, <3>2 DEF Closed
    <3>4. k = m
      BY <1>4, <2>3, <3>3 DEF Ordered
    <3>5. QED
      BY <1>3, <1>4, <3>3, <3>4
  <2>8. QED
    BY <2>5, <2>6, <2>7
<1>12. Exact(u, lost, effects)
  BY <1>4, <1>6 DEF Exact
<1>13. \A x \in Calls \union Contexts :
          x \in r.gone <=> x \in c.gone \/ \E i \in DOMAIN s : i <= b /\ s[i].of = x
  <2>1. r.gone = c.gone \union ({d[i].of : i \in DOMAIN d} \ {None})
    BY <1>3
  <2>2. ASSUME NEW x \in Calls \union Contexts
        PROVE  x \in r.gone <=> x \in c.gone \/ \E i \in DOMAIN s : i <= b /\ s[i].of = x
    <3>1. x # None
      BY NativeLoopAssumption
    <3>2. x \in {d[i].of : i \in DOMAIN d} <=> \E i \in DOMAIN s : i <= b /\ s[i].of = x
      BY <1>3, <1>4
    <3>3. QED
      BY <2>1, <3>1, <3>2
  <2>3. QED
    BY <2>2
<1>14. r.gone \subseteq Calls \union Contexts
  <2>1. \A i \in DOMAIN d : d[i] \in Entries
    BY <1>3, <1>4, <1>5
  <2>2. \A e \in Entries : e.of \in Calls \union Contexts \union {None}
    BY EntryKinds
  <2>3. QED
    BY <1>1, <1>3, <2>1, <2>2
<1>15. Once(r)
  <2>1. ASSUME NEW i \in DOMAIN u, NEW j \in DOMAIN u, u[i].is = "context", u[j] = u[i]
        PROVE  i = j
    <3>1. i - 2 + b = j - 2 + b
      BY <1>4, <1>6, <2>1 DEF Once, s
    <3>2. QED
      BY <1>4, <1>6, <2>1, <3>1
  <2>2. ASSUME NEW i \in DOMAIN u, u[i].is \in {"call", "context"}, u[i].of \in r.gone
        PROVE  FALSE
    <3>1. PICK n \in DOMAIN s : n > b /\ u[i] = s[n]
      BY <1>6, <2>2
    <3>2. s[n].of \in Calls \union Contexts
      BY <1>5, <2>2, <3>1, EntryKinds
    <3>3. s[n].of \notin c.gone
      BY <1>4, <2>2, <3>1 DEF Once, s
    <3>4. PICK m \in DOMAIN s : m <= b /\ s[m].of = s[n].of
      BY <1>13, <2>2, <3>1, <3>2, <3>3
    <3>5. m # n
      BY <1>4, <3>1, <3>4
    <3>6. CASE s[n].is = "call"
      <4>1. s[m].is \in {"call", "result"}
        BY <1>5, <3>4, <3>6, EntryKinds, NativeLoopAssumption DEF Kinds
      <4>2. CASE s[m].is = "call"
        <5>1. s[m] = s[n]
          BY <1>5, <3>4, <3>6, <4>2, EntryKinds
        <5>2. QED
          BY <1>4, <3>5, <3>6, <5>1 DEF Ordered
      <4>3. CASE s[m].is = "result"
        BY <1>4, <1>9, <3>1, <3>4, <3>6, <4>3
      <4>4. QED
        BY <4>1, <4>2, <4>3
    <3>7. CASE s[n].is = "context"
      <4>1. s[m].is = "context" /\ s[m] = s[n]
        BY <1>5, <3>4, <3>7, EntryKinds, NativeLoopAssumption DEF Kinds
      <4>2. QED
        BY <1>4, <3>5, <3>7, <4>1 DEF Once, s
    <3>8. QED
      BY <2>2, <3>1, <3>6, <3>7
  <2>3. QED
    BY <2>1, <2>2 DEF Once, u
<1>16. Carried(r) = Carried(c)
  <2>1. ASSUME NEW x \in Contexts
        PROVE  x \in Carried(r) <=> x \in Carried(c)
    <3>1. Context(x).is = "context" /\ Context(x).of = x
      BY Made
    <3>2. x \in Carried(r) <=> x \in r.gone \/ \E i \in DOMAIN u : u[i] = Context(x)
      BY DEF Carried, u
    <3>3. x \in Carried(c) <=> x \in c.gone \/ \E i \in DOMAIN s : s[i] = Context(x)
      BY DEF Carried, s
    <3>4. ASSUME x \in Carried(r)
          PROVE  x \in Carried(c)
      <4>1. CASE x \in r.gone /\ x \notin c.gone
        <5>1. PICK i \in DOMAIN s : s[i].of = x
          BY <1>13, <4>1
        <5>2. s[i] = Context(x)
          BY <1>5, <5>1, EntryKinds, NativeLoopAssumption DEF Kinds
        <5>3. QED
          BY <3>3, <5>2
      <4>2. CASE \E i \in DOMAIN u : u[i] = Context(x)
        <5>1. PICK i \in DOMAIN u : u[i] = Context(x)
          BY <4>2
        <5>2. i - 2 + b \in DOMAIN s /\ u[i] = s[i - 2 + b]
          BY <1>6, <3>1, <5>1
        <5>3. QED
          BY <3>3, <5>1, <5>2
      <4>3. QED
        BY <3>2, <3>3, <3>4, <4>1, <4>2
    <3>5. ASSUME x \in Carried(c)
          PROVE  x \in Carried(r)
      <4>1. CASE x \in c.gone
        BY <1>13, <3>2, <4>1
      <4>2. CASE \E i \in DOMAIN s : s[i] = Context(x)
        <5>1. PICK i \in DOMAIN s : s[i] = Context(x)
          BY <4>2
        <5>2. CASE i <= b
          BY <1>13, <3>1, <3>2, <5>1, <5>2
        <5>3. CASE i > b
          BY <1>7, <3>2, <5>1, <5>3
        <5>4. QED
          BY <1>4, <5>2, <5>3
      <4>3. QED
        BY <3>3, <3>5, <4>1, <4>2
    <3>6. QED
      BY <3>4, <3>5
  <2>2. QED
    BY <2>1 DEF Carried
<1>17. Waiting(u, <<>>)
  BY DEF Waiting
<1>18. r \in Conversations
  <2>1. PICK g : g = c.gone \union ({d[i].of : i \in DOMAIN d} \ {None})
    OBVIOUS
  <2>2. r = [entries |-> u, gone |-> g]
    BY <1>3, <2>1
  <2>3. g \subseteq Calls \union Contexts
    BY <1>14, <2>2
  <2>4. QED
    BY <1>3, <2>2, <2>3 DEF Conversations
<1>19. QED
  BY <1>10, <1>11, <1>12, <1>15, <1>16, <1>17, <1>18 DEF Good, Shape, r, u

\* The contexts of a delivery, one entry each.
LEMMA Texts ==
    ASSUME NEW xs \in SUBSET Contexts, IsFiniteSet(xs)
    PROVE  LET t == SetToSeq({Context(x) : x \in xs})
           IN  /\ t \in Seq(Entries) /\ Plain(t)
               /\ \A i, j \in DOMAIN t : t[i].is = "context" /\ t[j] = t[i] => i = j
               /\ \A i \in DOMAIN t : t[i].is = "context" => t[i].of \in xs
               /\ {x \in Contexts : \E i \in DOMAIN t : t[i] = Context(x)} = xs
<1> DEFINE S == {Context(x) : x \in xs}
           t == SetToSeq(S)
<1>1. IsFiniteSet(S)
  <2> DEFINE f == [x \in xs |-> Context(x)]
  <2>1. f \in Surjection(xs, S)
    BY DEF Surjection
  <2> HIDE DEF f, S
  <2>2. QED
    BY <2>1, FS_Surjection
<1>2. Cardinality(S) \in Nat /\ ExistsBijection(1..Cardinality(S), S)
  BY <1>1, FS_CardinalityType
<1> DEFINE n == Cardinality(S)
<1>3. \E f \in [1..n -> S] : IsInjective(f)
  BY <1>2 DEF ExistsBijection, Bijection, Injection
<1>4. t \in [1..n -> S] /\ IsInjective(t)
  BY <1>3 DEF SetToSeq
<1>5. IsFiniteSet(S) /\ Cardinality(S) = n
  BY <1>1
<1>6. S \subseteq Entries /\ \A e \in S : e.is = "context" /\ e.of \in xs /\ e = Context(e.of)
  BY Made
<1> HIDE DEF t
<1>7. t \in Injection(1..n, S)
  BY <1>4 DEF Injection
<1>8. \A e \in S : \E i \in 1..n : t[i] = e
  <2> DEFINE R == 1..n
  <2>1. IsFiniteSet(R) /\ Cardinality(R) = n
    BY <1>2, FS_Interval
  <2>2. t \in Injection(R, S) /\ IsFiniteSet(S) /\ Cardinality(S) = n
    BY <1>1, <1>7
  <2> HIDE DEF R, n, S
  <2>3. t \in Surjection(R, S)
    BY <2>1, <2>2, FS_Injection
  <2>4. QED
    BY <2>3 DEF Surjection, R
<1>9. n \in Nat
  BY <1>2
<1> HIDE DEF n, S
<1>10. t \in Seq(Entries) /\ DOMAIN t = 1..n
  <2>1. t \in [1..n -> Entries]
    BY <1>4, <1>6
  <2>2. QED
    BY <1>9, <2>1
<1>11. \A i \in DOMAIN t : t[i] \in S
  BY <1>4, <1>10
<1>12. \A x \in Contexts : (\E i \in DOMAIN t : t[i] = Context(x)) <=> x \in xs
  <2>1. ASSUME NEW x \in Contexts, NEW i \in DOMAIN t, t[i] = Context(x)
        PROVE  x \in xs
    BY <1>6, <1>11, <2>1, Made
  <2>2. ASSUME NEW x \in xs
        PROVE  \E i \in DOMAIN t : t[i] = Context(x)
    BY <1>8, <1>10 DEF S
  <2>3. QED
    BY <2>1, <2>2
<1>13. Plain(t) /\ \A i \in DOMAIN t : t[i].of \in xs
  BY <1>6, <1>11 DEF Plain
<1>14. \A i, j \in DOMAIN t : t[j] = t[i] => i = j
  BY <1>4 DEF IsInjective
<1>15. {x \in Contexts : \E i \in DOMAIN t : t[i] = Context(x)} = xs
  BY <1>12
<1>16. /\ t \in Seq(Entries) /\ Plain(t)
       /\ \A i, j \in DOMAIN t : t[i].is = "context" /\ t[j] = t[i] => i = j
       /\ \A i \in DOMAIN t : t[i].is = "context" => t[i].of \in xs
       /\ {x \in Contexts : \E i \in DOMAIN t : t[i] = Context(x)} = xs
  BY <1>10, <1>13, <1>14, <1>15
<1>17. QED
  BY <1>16, Zenon DEF t, S

-----------------------------------------------------------------------------
(* Steps that say nothing.                                                 *)
LEMMA Goes ==
    ASSUME run \in Runs, NEW step \in Steps, Go(step)
    PROVE  /\ run' \in Runs /\ run'.step = step
           /\ run'.at = run.at /\ run'.refs = run.refs /\ run'.rewake = run.rewake
           /\ run'.corrections = run.corrections /\ run'.finished = run.finished
           /\ run'.corrected = run.corrected /\ run'.outcome = run.outcome
BY DEF Runs, Go

LEMMA Ends ==
    ASSUME run \in Runs, NEW outcome \in {"complete", "cancelled", "failed", "refused"},
           End(outcome)
    PROVE  /\ run' \in Runs /\ run'.step = IF run.at = "idle" THEN "finishing" ELSE "ending"
           /\ run'.at = run.at /\ run'.refs = {} /\ run'.rewake = run.rewake
           /\ run'.corrections = run.corrections /\ run'.finished = FALSE
           /\ run'.corrected = FALSE /\ run'.outcome = outcome
<1>1. run.at = "idle" => run' = [run EXCEPT !.outcome = outcome, !.refs = {}, !.finished = FALSE,
                                           !.corrected = FALSE, !.step = "finishing"]
  BY DEF End
<1>2. run.at # "idle" => run' = [run EXCEPT !.outcome = outcome, !.refs = {}, !.finished = FALSE,
                                           !.corrected = FALSE, !.step = "ending"]
  BY DEF End
<1>3. CASE run.at = "idle"
  BY <1>1, <1>3 DEF Runs, Steps
<1>4. CASE run.at # "idle"
  BY <1>2, <1>4 DEF Runs, Steps
<1>5. QED
  BY <1>3, <1>4

LEMMA RunTypes ==
    ASSUME run \in Runs
    PROVE  /\ run.step \in Steps /\ run.refs \subseteq Contexts /\ run.rewake \subseteq Rewakes
           /\ run.corrections \in 0..MaxPrompts
           /\ run.finished \in BOOLEAN /\ run.corrected \in BOOLEAN
           /\ run.at \in {None, "idle", "top", "context", "end"}
BY DEF Runs

\* Wherever a turn is interrupted, only the first call may have a known effect,
\* and the executor then holds its result.
Told == \A k \in DOMAIN pending : pending[k] \notin abandoned =>
          (ledger[pending[k]] = "known" <=> k = 1 /\ receipt = pending[1])
LEMMA ReceiptHeld ==
    ASSUME IInv
    PROVE  Told
<1> SUFFICES ASSUME NEW k \in DOMAIN pending, pending[k] \notin abandoned
             PROVE  ledger[pending[k]] = "known" <=> k = 1 /\ receipt = pending[1]
  BY DEF Told
<1>1. pending[k] \in Calls /\ pending[k] # None /\ k \in Nat \ {0} /\ 1 \in DOMAIN pending
  BY NativeLoopAssumption DEF IInv, TypeOK
<1>2. k # 1 => k > 1
  BY <1>1
<1>3. CASE run.step \in {"answered", "recorded", "tools", "released"}
  BY <1>1, <1>3 DEF IInv, Sound, Effects
<1>4. CASE run.step \in {"executing", "hooks"}
  BY <1>1, <1>2, <1>4 DEF IInv, Sound, Effects
<1>5. CASE run.step \in {"ending", "dropped", "idle"}
  BY <1>5 DEF IInv, Sound, Effects
<1>6. CASE run.step \notin InTools \union {"ending", "dropped", "idle"}
  BY <1>6 DEF IInv, Sound, Flow, Quiet
<1>7. QED
  BY <1>3, <1>4, <1>5, <1>6 DEF InTools

Still == UNCHANGED <<conversation, saved, ledger, delivery, crashes, abandoned>>

LEMMA StillKeeps ==
    ASSUME Sound, Still
    PROVE  Live' /\ Recorded'
BY DEF Sound, Still, conversation, Live, Recorded

LEMMA StartTurnKeeps ==
    ASSUME IInv, StartTurn
    PROVE  IInv'
<1> USE DEF IInv, Sound
<1>1. Still
  BY DEF StartTurn, BeginTurn, Still, conversation, record, bounds
<1>2. Live' /\ Recorded'
  BY <1>1, StillKeeps
<1>3. Told /\ run \in Runs
  BY ReceiptHeld DEF TypeOK
<1> USE <1>1, <1>3 DEF Still, conversation
<1>4. /\ run.step = "idle" /\ prompts < MaxPrompts /\ prompts' = prompts + 1 /\ held' = held
      /\ run' \in Runs /\ run'.at = None /\ run'.refs = {} /\ run'.rewake = {}
      /\ run'.corrections = 0 /\ run'.finished = FALSE /\ run'.corrected = FALSE
      /\ IF "turn" \in open
         THEN run'.step = "ending" /\ run'.outcome = "refused" /\ open' = open
         ELSE run'.step = "submit" /\ run'.outcome = None /\ open' = open \union {"turn"}
  <2>1. /\ run.step = "idle" /\ prompts < MaxPrompts /\ prompts' = prompts + 1 /\ held' = held
    BY DEF StartTurn, BeginTurn
  <2>2. 0 \in 0..MaxPrompts
    BY NativeLoopAssumption
  <2>3. CASE "turn" \in open
    <3>1. run' = [Idle EXCEPT !.step = "ending", !.outcome = "refused", !.rewake = {}] /\ open' = open
      BY <2>3 DEF StartTurn, BeginTurn
    <3>2. run' = [step |-> "ending", at |-> None, refs |-> {}, rewake |-> {}, corrections |-> 0,
                  finished |-> FALSE, corrected |-> FALSE, outcome |-> "refused"]
      BY <3>1 DEF Idle
    <3>3. run' \in Runs
      BY <2>2, <3>2 DEF Runs, Steps
    <3>4. /\ run'.step = "ending" /\ run'.at = None /\ run'.refs = {} /\ run'.rewake = {}
          /\ run'.corrections = 0 /\ run'.finished = FALSE /\ run'.corrected = FALSE
          /\ run'.outcome = "refused"
      BY <3>2
    <3>5. QED
      BY <2>1, <2>3, <3>1, <3>3, <3>4
  <2>4. CASE "turn" \notin open
    <3>1. run' = [Idle EXCEPT !.step = "submit", !.rewake = {}] /\ open' = open \union {"turn"}
      BY <2>4 DEF StartTurn, BeginTurn
    <3>2. run' = [step |-> "submit", at |-> None, refs |-> {}, rewake |-> {}, corrections |-> 0,
                  finished |-> FALSE, corrected |-> FALSE, outcome |-> None]
      BY <3>1 DEF Idle
    <3>3. run' \in Runs
      BY <2>2, <3>2 DEF Runs, Steps
    <3>4. /\ run'.step = "submit" /\ run'.at = None /\ run'.refs = {} /\ run'.rewake = {}
          /\ run'.corrections = 0 /\ run'.finished = FALSE /\ run'.corrected = FALSE
          /\ run'.outcome = None
      BY <3>2
    <3>5. QED
      BY <2>1, <2>4, <3>1, <3>3, <3>4
  <2>5. QED
    BY <2>3, <2>4
<1>5. TypeOK'
  <2>1. prompts' \in 0..MaxPrompts /\ run'.corrections <= prompts'
    BY <1>4, NativeLoopAssumption DEF TypeOK
  <2>2. open' \subseteq {"turn", "request", "compaction"} /\ run'.step \notin {"executing", "hooks"}
    BY <1>4 DEF TypeOK
  <2>3. QED
    BY <1>4, <2>1, <2>2 DEF TypeOK
<1>6. Flow'
  BY <1>4 DEF Flow, Quiet, Compacts, InTools, Closing, None
<1>7. Effects'
  BY <1>4 DEF Effects, Told
<1>8. Delivering'
  BY <1>4 DEF Delivering, Started, None
<1>9. Finished'
  BY <1>4 DEF Finished, InTools
<1>10. QED
  BY <1>2, <1>5, <1>6, <1>7, <1>8, <1>9

LEMMA PromptBlockedKeeps ==
    ASSUME IInv, PromptBlocked
    PROVE  IInv'
<1> USE DEF IInv, Sound
<1>1. Still
  BY DEF PromptBlocked, Still, conversation, record, bounds
<1>2. Live' /\ Recorded'
  BY <1>1, StillKeeps
<1>3. Told /\ run \in Runs
  BY ReceiptHeld DEF TypeOK
<1> USE <1>1, <1>3 DEF Still, conversation
<1>4. TypeOK'
  BY Goes, Ends DEF TypeOK, Steps, PromptBlocked, record, bounds
<1>5. Flow'
  BY Goes, Ends DEF TypeOK, Steps, Flow, PromptBlocked, record, bounds, Quiet, Compacts, InTools, Closing
<1>6. Effects'
  BY Goes, Ends DEF TypeOK, Steps, Told, Effects, Flow, PromptBlocked, Quiet, record, InTools
<1>7. Delivering'
  BY Goes, Ends, RunTypes DEF Delivering, Started, Flow, Closing, None, Steps, PromptBlocked, record
<1>8. Finished'
  BY Goes, Ends, RunTypes DEF Finished, InTools, Effects, Flow, Steps, PromptBlocked, record, Spoken
<1>9. QED
  BY <1>2, <1>4, <1>5, <1>6, <1>7, <1>8

LEMMA CompactionRefusedKeeps ==
    ASSUME IInv, CompactionRefused
    PROVE  IInv'
<1> USE DEF IInv, Sound
<1>1. Still
  BY DEF CompactionRefused, Compacting, Still, conversation, record, bounds
<1>2. Live' /\ Recorded'
  BY <1>1, StillKeeps
<1>3. Told /\ run \in Runs
  BY ReceiptHeld DEF TypeOK
<1> USE <1>1, <1>3 DEF Still, conversation
<1>4. TypeOK'
  BY Goes, Ends DEF TypeOK, Steps, CompactionRefused, Compacting, record, bounds
<1>5. Flow'
  BY Goes, Ends DEF TypeOK, Steps, Flow, CompactionRefused, Compacting, record, bounds, Quiet, Compacts, InTools, Closing
<1>6. Effects'
  BY Goes, Ends DEF TypeOK, Steps, Told, Effects, Flow, CompactionRefused, Compacting, Quiet, record, InTools
<1>7. Delivering'
  BY Goes, Ends, RunTypes DEF Delivering, Started, Flow, Closing, None, Steps, CompactionRefused, Compacting, record
<1>8. Finished'
  BY Goes, Ends, RunTypes DEF Finished, InTools, Effects, Flow, Steps, CompactionRefused, Compacting, record, Spoken
<1>9. QED
  BY <1>2, <1>4, <1>5, <1>6, <1>7, <1>8

LEMMA BeginCompactionKeeps ==
    ASSUME IInv, BeginCompaction
    PROVE  IInv'
<1> USE DEF IInv, Sound
<1>1. Still
  BY DEF BeginCompaction, Still, conversation, record, bounds
<1>2. Live' /\ Recorded'
  BY <1>1, StillKeeps
<1>3. Told /\ run \in Runs
  BY ReceiptHeld DEF TypeOK
<1> USE <1>1, <1>3 DEF Still, conversation
<1>4. PICK place \in {"idle", "top"} :
         /\ Compacting(place) /\ CompactionAdmitted
         /\ run' = [run EXCEPT !.step = "compacting", !.at = place]
         /\ IF place = "top" THEN UNCHANGED prompts
            ELSE prompts < MaxPrompts /\ prompts' = prompts + 1
  BY DEF BeginCompaction
<1>5. /\ run.step = place /\ run.corrections = 0 /\ pending = <<>> /\ MayCompact(conv.entries)
      /\ run' \in Runs /\ run'.step = "compacting" /\ run'.at = place /\ run'.refs = run.refs
      /\ run'.rewake = run.rewake /\ run'.corrections = 0 /\ run'.finished = run.finished
      /\ run'.corrected = run.corrected /\ run'.outcome = run.outcome
  BY <1>4 DEF Compacting, CompactionAdmitted, Runs, Steps
<1>6. prompts' \in 0..MaxPrompts
  BY <1>4, NativeLoopAssumption DEF TypeOK
<1>7. held' = held /\ open' = open \union {"compaction"}
  BY DEF BeginCompaction
<1>8. TypeOK'
  BY <1>5, <1>6, <1>7 DEF TypeOK
<1>9. Flow'
  BY <1>5, <1>7 DEF Flow, Quiet, Compacts, InTools, Closing, None
<1>10. Effects'
  BY <1>5 DEF Effects, Told
<1>11. Delivering'
  BY <1>4, <1>5 DEF Delivering, Started, None, Flow, Closing, Idle
<1>12. Finished'
  BY <1>5 DEF Finished, InTools
<1>13. QED
  BY <1>2, <1>8, <1>9, <1>10, <1>11, <1>12

LEMMA RequestSummaryKeeps ==
    ASSUME IInv, RequestSummary
    PROVE  IInv'
<1> USE DEF IInv, Sound
<1>1. Still
  BY DEF RequestSummary, Still, conversation, record, bounds
<1>2. Live' /\ Recorded'
  BY <1>1, StillKeeps
<1>3. Told /\ run \in Runs
  BY ReceiptHeld DEF TypeOK
<1> USE <1>1, <1>3 DEF Still, conversation
<1>4. TypeOK'
  BY Goes, Ends DEF TypeOK, Steps, RequestSummary, record, bounds
<1>5. Flow'
  BY Goes, Ends DEF TypeOK, Steps, Flow, RequestSummary, record, bounds, Quiet, Compacts, InTools, Closing
<1>6. Effects'
  BY Goes, Ends DEF TypeOK, Steps, Told, Effects, Flow, RequestSummary, Quiet, record, InTools
<1>7. Delivering'
  BY Goes, Ends, RunTypes DEF Delivering, Started, Flow, Closing, None, Steps, RequestSummary, record
<1>8. Finished'
  BY Goes, Ends, RunTypes DEF Finished, InTools, Effects, Flow, Steps, RequestSummary, record, Spoken
<1>9. QED
  BY <1>2, <1>4, <1>5, <1>6, <1>7, <1>8

LEMMA CompactionFailsKeeps ==
    ASSUME IInv, CompactionFails
    PROVE  IInv'
<1> USE DEF IInv, Sound
<1>1. Still
  BY DEF CompactionFails, Still, conversation, record, bounds
<1>2. Live' /\ Recorded'
  BY <1>1, StillKeeps
<1>3. Told /\ run \in Runs
  BY ReceiptHeld DEF TypeOK
<1> USE <1>1, <1>3 DEF Still, conversation
<1>4. TypeOK'
  BY Goes, Ends DEF TypeOK, Steps, CompactionFails, record, bounds
<1>5. Flow'
  BY Goes, Ends DEF TypeOK, Steps, Flow, CompactionFails, record, bounds, Quiet, Compacts, InTools, Closing
<1>6. Effects'
  BY Goes, Ends DEF TypeOK, Steps, Told, Effects, Flow, CompactionFails, Quiet, record, InTools
<1>7. Delivering'
  BY Goes, Ends, RunTypes DEF Delivering, Started, Flow, Closing, None, Steps, CompactionFails, record
<1>8. Finished'
  BY Goes, Ends, RunTypes DEF Finished, InTools, Effects, Flow, Steps, CompactionFails, record, Spoken
<1>9. QED
  BY <1>2, <1>4, <1>5, <1>6, <1>7, <1>8

LEMMA NotLongKeeps ==
    ASSUME IInv, NotLong
    PROVE  IInv'
<1> USE DEF IInv, Sound
<1>1. Still
  BY DEF NotLong, Still, conversation, record, bounds
<1>2. Live' /\ Recorded'
  BY <1>1, StillKeeps
<1>3. Told /\ run \in Runs
  BY ReceiptHeld DEF TypeOK
<1> USE <1>1, <1>3 DEF Still, conversation
<1>4. TypeOK'
  BY Goes, Ends DEF TypeOK, Steps, NotLong, record, bounds
<1>5. Flow'
  BY Goes, Ends DEF TypeOK, Steps, Flow, NotLong, record, bounds, Quiet, Compacts, InTools, Closing
<1>6. Effects'
  BY Goes, Ends DEF TypeOK, Steps, Told, Effects, Flow, NotLong, Quiet, record, InTools
<1>7. Delivering'
  BY Goes, Ends, RunTypes DEF Delivering, Started, Flow, Closing, None, Steps, NotLong, record
<1>8. Finished'
  BY Goes, Ends, RunTypes DEF Finished, InTools, Effects, Flow, Steps, NotLong, record, Spoken
<1>9. QED
  BY <1>2, <1>4, <1>5, <1>6, <1>7, <1>8

LEMMA RewakeRefusedKeeps ==
    ASSUME IInv, RewakeRefused
    PROVE  IInv'
<1> USE DEF IInv, Sound
<1>1. Still
  BY DEF RewakeRefused, Still, conversation, record, bounds
<1>2. Live' /\ Recorded'
  BY <1>1, StillKeeps
<1>3. Told /\ run \in Runs
  BY ReceiptHeld DEF TypeOK
<1> USE <1>1, <1>3 DEF Still, conversation
<1>4. TypeOK'
  BY Goes, Ends DEF TypeOK, Steps, RewakeRefused, record, bounds
<1>5. Flow'
  BY Goes, Ends DEF TypeOK, Steps, Flow, RewakeRefused, record, bounds, Quiet, Compacts, InTools, Closing
<1>6. Effects'
  BY Goes, Ends DEF TypeOK, Steps, Told, Effects, Flow, RewakeRefused, Quiet, record, InTools
<1>7. Delivering'
  BY Goes, Ends, RunTypes DEF Delivering, Started, Flow, Closing, None, Steps, RewakeRefused, record
<1>8. Finished'
  BY Goes, Ends, RunTypes DEF Finished, InTools, Effects, Flow, Steps, RewakeRefused, record, Spoken
<1>9. QED
  BY <1>2, <1>4, <1>5, <1>6, <1>7, <1>8

LEMMA NoContextKeeps ==
    ASSUME IInv, NoContext
    PROVE  IInv'
<1> USE DEF IInv, Sound
<1>1. Still
  BY DEF NoContext, After, Still, conversation, record, bounds
<1>2. Live' /\ Recorded'
  BY <1>1, StillKeeps
<1>3. Told /\ run \in Runs
  BY ReceiptHeld DEF TypeOK
<1> USE <1>1, <1>3 DEF Still, conversation
<1>4. TypeOK'
  BY Goes, Ends DEF TypeOK, Steps, NoContext, After, record, bounds
<1>5. Flow'
  BY Goes, Ends DEF TypeOK, Steps, Flow, NoContext, After, record, bounds, Quiet, Compacts, InTools, Closing
<1>6. Effects'
  BY Goes, Ends DEF TypeOK, Steps, Told, Effects, Flow, NoContext, After, Quiet, record, InTools
<1>7. Delivering'
  BY Goes, Ends, RunTypes DEF Delivering, Started, Flow, Closing, None, Steps, NoContext, After, record
<1>8. Finished'
  BY Goes, Ends, RunTypes DEF Finished, InTools, Effects, Flow, Steps, NoContext, After, record, Spoken
<1>9. QED
  BY <1>2, <1>4, <1>5, <1>6, <1>7, <1>8

LEMMA ModelRefusedKeeps ==
    ASSUME IInv, ModelRefused
    PROVE  IInv'
<1> USE DEF IInv, Sound
<1>1. Still
  BY DEF ModelRefused, Still, conversation, record, bounds
<1>2. Live' /\ Recorded'
  BY <1>1, StillKeeps
<1>3. Told /\ run \in Runs
  BY ReceiptHeld DEF TypeOK
<1> USE <1>1, <1>3 DEF Still, conversation
<1>4. TypeOK'
  BY Goes, Ends DEF TypeOK, Steps, ModelRefused, record, bounds
<1>5. Flow'
  BY Goes, Ends DEF TypeOK, Steps, Flow, ModelRefused, record, bounds, Quiet, Compacts, InTools, Closing
<1>6. Effects'
  BY Goes, Ends DEF TypeOK, Steps, Told, Effects, Flow, ModelRefused, Quiet, record, InTools
<1>7. Delivering'
  BY Goes, Ends, RunTypes DEF Delivering, Started, Flow, Closing, None, Steps, ModelRefused, record
<1>8. Finished'
  BY Goes, Ends, RunTypes DEF Finished, InTools, Effects, Flow, Steps, ModelRefused, record, Spoken
<1>9. QED
  BY <1>2, <1>4, <1>5, <1>6, <1>7, <1>8

LEMMA StartupStaleKeeps ==
    ASSUME IInv, StartupStale
    PROVE  IInv'
<1> USE DEF IInv, Sound
<1>1. Still
  BY DEF StartupStale, Still, conversation, record, bounds
<1>2. Live' /\ Recorded'
  BY <1>1, StillKeeps
<1>3. Told /\ run \in Runs
  BY ReceiptHeld DEF TypeOK
<1> USE <1>1, <1>3 DEF Still, conversation
<1>4. TypeOK'
  BY Goes, Ends DEF TypeOK, Steps, StartupStale, record, bounds
<1>5. Flow'
  BY Goes, Ends DEF TypeOK, Steps, Flow, StartupStale, record, bounds, Quiet, Compacts, InTools, Closing
<1>6. Effects'
  BY Goes, Ends DEF TypeOK, Steps, Told, Effects, Flow, StartupStale, Quiet, record, InTools
<1>7. Delivering'
  BY Goes, Ends, RunTypes DEF Delivering, Started, Flow, Closing, None, Steps, StartupStale, record
<1>8. Finished'
  BY Goes, Ends, RunTypes DEF Finished, InTools, Effects, Flow, Steps, StartupStale, record, Spoken
<1>9. QED
  BY <1>2, <1>4, <1>5, <1>6, <1>7, <1>8

LEMMA ProviderFailsKeeps ==
    ASSUME IInv, ProviderFails
    PROVE  IInv'
<1> USE DEF IInv, Sound
<1>1. Still
  BY DEF ProviderFails, Still, conversation, record, bounds
<1>2. Live' /\ Recorded'
  BY <1>1, StillKeeps
<1>3. Told /\ run \in Runs
  BY ReceiptHeld DEF TypeOK
<1> USE <1>1, <1>3 DEF Still, conversation
<1>4. TypeOK'
  BY Goes, Ends DEF TypeOK, Steps, ProviderFails, record, bounds
<1>5. Flow'
  BY Goes, Ends DEF TypeOK, Steps, Flow, ProviderFails, record, bounds, Quiet, Compacts, InTools, Closing
<1>6. Effects'
  BY Goes, Ends DEF TypeOK, Steps, Told, Effects, Flow, ProviderFails, Quiet, record, InTools
<1>7. Delivering'
  BY Goes, Ends, RunTypes DEF Delivering, Started, Flow, Closing, None, Steps, ProviderFails, record
<1>8. Finished'
  BY Goes, Ends, RunTypes DEF Finished, InTools, Effects, Flow, Steps, ProviderFails, record, Spoken
<1>9. QED
  BY <1>2, <1>4, <1>5, <1>6, <1>7, <1>8

LEMMA ToolRefusedKeeps ==
    ASSUME IInv, ToolRefused
    PROVE  IInv'
<1> USE DEF IInv, Sound
<1>1. Still
  BY DEF ToolRefused, Still, conversation, record, bounds
<1>2. Live' /\ Recorded'
  BY <1>1, StillKeeps
<1>3. Told /\ run \in Runs
  BY ReceiptHeld DEF TypeOK
<1> USE <1>1, <1>3 DEF Still, conversation
<1>4. TypeOK'
  BY Goes, Ends DEF TypeOK, Steps, ToolRefused, record, bounds
<1>5. Flow'
  BY Goes, Ends DEF TypeOK, Steps, Flow, ToolRefused, record, bounds, Quiet, Compacts, InTools, Closing
<1>6. Effects'
  BY Goes, Ends DEF TypeOK, Steps, Told, Effects, Flow, ToolRefused, Quiet, record, InTools
<1>7. Delivering'
  BY Goes, Ends, RunTypes DEF Delivering, Started, Flow, Closing, None, Steps, ToolRefused, record
<1>8. Finished'
  BY Goes, Ends, RunTypes DEF Finished, InTools, Effects, Flow, Steps, ToolRefused, record, Spoken
<1>9. QED
  BY <1>2, <1>4, <1>5, <1>6, <1>7, <1>8

LEMMA ToolsDoneKeeps ==
    ASSUME IInv, ToolsDone
    PROVE  IInv'
<1> USE DEF IInv, Sound
<1>1. Still
  BY DEF ToolsDone, Still, conversation, record, bounds
<1>2. Live' /\ Recorded'
  BY <1>1, StillKeeps
<1>3. Told /\ run \in Runs
  BY ReceiptHeld DEF TypeOK
<1> USE <1>1, <1>3 DEF Still, conversation
<1>4. TypeOK'
  BY Goes, Ends DEF TypeOK, Steps, ToolsDone, record, bounds
<1>5. Flow'
  BY Goes, Ends DEF TypeOK, Steps, Flow, ToolsDone, record, bounds, Quiet, Compacts, InTools, Closing
<1>6. Effects'
  BY Goes, Ends DEF TypeOK, Steps, Told, Effects, Flow, ToolsDone, Quiet, record, InTools
<1>7. Delivering'
  BY Goes, Ends, RunTypes DEF Delivering, Started, Flow, Closing, None, Steps, ToolsDone, record
<1>8. Finished'
  BY Goes, Ends, RunTypes DEF Finished, InTools, Effects, Flow, Steps, ToolsDone, record, Spoken
<1>9. QED
  BY <1>2, <1>4, <1>5, <1>6, <1>7, <1>8

LEMMA ContinueKeeps ==
    ASSUME IInv, Continue
    PROVE  IInv'
<1> USE DEF IInv, Sound
<1>1. Still
  BY DEF Continue, Still, conversation, record, bounds
<1>2. Live' /\ Recorded'
  BY <1>1, StillKeeps
<1>3. Told /\ run \in Runs
  BY ReceiptHeld DEF TypeOK
<1> USE <1>1, <1>3 DEF Still, conversation
<1>4. TypeOK'
  BY Goes, Ends DEF TypeOK, Steps, Continue, record, bounds
<1>5. Flow'
  BY Goes, Ends DEF TypeOK, Steps, Flow, Continue, record, bounds, Quiet, Compacts, InTools, Closing
<1>6. Effects'
  BY Goes, Ends DEF TypeOK, Steps, Told, Effects, Flow, Continue, Quiet, record, InTools
<1>7. Delivering'
  BY Goes, Ends, RunTypes DEF Delivering, Started, Flow, Closing, None, Steps, Continue, record
<1>8. Finished'
  BY Goes, Ends, RunTypes DEF Finished, InTools, Effects, Flow, Steps, Continue, record, Spoken
<1>9. QED
  BY <1>2, <1>4, <1>5, <1>6, <1>7, <1>8

LEMMA HookFailsKeeps ==
    ASSUME IInv, HookFails
    PROVE  IInv'
<1> USE DEF IInv, Sound
<1>1. Still
  BY DEF HookFails, Still, conversation, record, bounds
<1>2. Live' /\ Recorded'
  BY <1>1, StillKeeps
<1>3. Told /\ run \in Runs
  BY ReceiptHeld DEF TypeOK
<1> USE <1>1, <1>3 DEF Still, conversation
<1>4. TypeOK'
  BY Goes, Ends DEF TypeOK, Steps, HookFails, record, bounds
<1>5. Flow'
  BY Goes, Ends DEF TypeOK, Steps, Flow, HookFails, record, bounds, Quiet, Compacts, InTools, Closing
<1>6. Effects'
  BY Goes, Ends DEF TypeOK, Steps, Told, Effects, Flow, HookFails, Quiet, record, InTools
<1>7. Delivering'
  BY Goes, Ends, RunTypes DEF Delivering, Started, Flow, Closing, None, Steps, HookFails, record
<1>8. Finished'
  BY Goes, Ends, RunTypes DEF Finished, InTools, Effects, Flow, Steps, HookFails, record, Spoken
<1>9. QED
  BY <1>2, <1>4, <1>5, <1>6, <1>7, <1>8

LEMMA StopKeeps ==
    ASSUME IInv, Stop
    PROVE  IInv'
<1> USE DEF IInv, Sound
<1>1. Still
  BY DEF Stop, Still, conversation, record, bounds
<1>2. Live' /\ Recorded'
  BY <1>1, StillKeeps
<1>3. Told /\ run \in Runs
  BY ReceiptHeld DEF TypeOK
<1> USE <1>1, <1>3 DEF Still, conversation
<1>4. TypeOK'
  BY Goes, Ends DEF TypeOK, Steps, Stop, record, bounds
<1>5. Flow'
  BY Goes, Ends DEF TypeOK, Steps, Flow, Stop, record, bounds, Quiet, Compacts, InTools, Closing
<1>6. Effects'
  BY Goes, Ends DEF TypeOK, Steps, Told, Effects, Flow, Stop, Quiet, record, InTools
<1>7. Delivering'
  BY Goes, Ends, RunTypes DEF Delivering, Started, Flow, Closing, None, Steps, Stop, record
<1>8. Finished'
  BY Goes, Ends, RunTypes DEF Finished, InTools, Effects, Flow, Steps, Stop, record, Spoken
<1>9. QED
  BY <1>2, <1>4, <1>5, <1>6, <1>7, <1>8

LEMMA CorrectKeeps ==
    ASSUME IInv, Correct
    PROVE  IInv'
<1> USE DEF IInv, Sound
<1>1. Still
  BY DEF Correct, Still, conversation, record, bounds
<1>2. Live' /\ Recorded'
  BY <1>1, StillKeeps
<1>3. Told /\ run \in Runs
  BY ReceiptHeld DEF TypeOK
<1> USE <1>1, <1>3 DEF Still, conversation
<1>4. /\ run.corrections \in Nat /\ run.corrections <= prompts /\ prompts \in Nat
      /\ prompts' = prompts + 1 /\ prompts + 1 <= MaxPrompts /\ MaxPrompts \in Nat
  BY NativeLoopAssumption, RunTypes DEF Correct, TypeOK
<1>5. PICK n \in 0..MaxPrompts : n = run.corrections + 1
  BY <1>4
<1>6. run' = [run EXCEPT !.corrections = n]
  BY <1>5 DEF Correct
<1>7. /\ run' \in Runs /\ run'.step = run.step /\ run'.at = run.at /\ run'.refs = run.refs
      /\ run'.rewake = run.rewake /\ run'.corrections = n /\ run'.finished = run.finished
      /\ run'.corrected = run.corrected /\ run'.outcome = run.outcome
  BY <1>6 DEF Runs
<1>8. run.step \in Awaiting /\ held' = held /\ open' = open
  BY DEF Correct, record
<1>9. TypeOK'
  BY <1>4, <1>5, <1>7, <1>8 DEF TypeOK
<1>10. Flow'
  BY <1>7, <1>8 DEF Flow, Quiet, Awaiting
<1>11. Effects'
  BY <1>7 DEF Effects
<1>12. Delivering'
  BY <1>7 DEF Delivering, Started
<1>13. Finished'
  BY <1>7, <1>8 DEF Finished, InTools, Awaiting, Spoken
<1>14. QED
  BY <1>2, <1>9, <1>10, <1>11, <1>12, <1>13

LEMMA CancelKeeps ==
    ASSUME IInv, Cancel
    PROVE  IInv'
<1> USE DEF IInv, Sound
<1>1. Still
  BY DEF Cancel, Awaiting, Still, conversation, record, bounds
<1>2. Live' /\ Recorded'
  BY <1>1, StillKeeps
<1>3. Told /\ run \in Runs
  BY ReceiptHeld DEF TypeOK
<1> USE <1>1, <1>3 DEF Still, conversation
<1>4. TypeOK'
  BY Goes, Ends DEF TypeOK, Steps, Cancel, Awaiting, record, bounds
<1>5. Flow'
  BY Goes, Ends DEF TypeOK, Steps, Flow, Cancel, Awaiting, record, bounds, Quiet, Compacts, InTools, Closing
<1>6. Effects'
  BY Goes, Ends DEF TypeOK, Steps, Told, Effects, Flow, Cancel, Awaiting, Quiet, record, InTools
<1>7. Delivering'
  BY Goes, Ends, RunTypes DEF Delivering, Started, Flow, Closing, None, Steps, Cancel, Awaiting, record
<1>8. Finished'
  BY Goes, Ends, RunTypes DEF Finished, InTools, Effects, Flow, Steps, Cancel, Awaiting, record, Spoken
<1>9. QED
  BY <1>2, <1>4, <1>5, <1>6, <1>7, <1>8

LEMMA DropTurnKeeps ==
    ASSUME IInv, DropTurn
    PROVE  IInv'
<1> USE DEF IInv, Sound
<1>1. Still
  BY DEF DropTurn, Awaiting, Still, conversation, record, bounds
<1>2. Live' /\ Recorded'
  BY <1>1, StillKeeps
<1>3. Told /\ run \in Runs
  BY ReceiptHeld DEF TypeOK
<1> USE <1>1, <1>3 DEF Still, conversation
<1>4. TypeOK'
  BY Goes, Ends DEF TypeOK, Steps, DropTurn, Awaiting, record, bounds
<1>5. Flow'
  BY Goes, Ends DEF TypeOK, Steps, Flow, DropTurn, Awaiting, record, bounds, Quiet, Compacts, InTools, Closing
<1>6. Effects'
  BY Goes, Ends DEF TypeOK, Steps, Told, Effects, Flow, DropTurn, Awaiting, Quiet, record, InTools
<1>7. Delivering'
  BY Goes, Ends, RunTypes DEF Delivering, Started, Flow, Closing, None, Steps, DropTurn, Awaiting, record
<1>8. Finished'
  BY Goes, Ends, RunTypes DEF Finished, InTools, Effects, Flow, Steps, DropTurn, Awaiting, record, Spoken
<1>9. QED
  BY <1>2, <1>4, <1>5, <1>6, <1>7, <1>8

-----------------------------------------------------------------------------
(* What becomes of a context's delivery.                                   *)
Silent == UNCHANGED <<conv, pending, saved, ledger, abandoned>>

LEMMA SilentKeeps ==
    ASSUME Sound, Silent
    PROVE  Live' /\ Recorded'
BY DEF Sound, Silent, Live, Recorded

LEMMA Delivers ==
    ASSUME TypeOK, IsFiniteSet(Started), NEW xs \in SUBSET Contexts,
           NEW state \in {"pending", "reserved", "delivered", "withheld"},
           Deliver(xs, state), xs \subseteq Started \/ \E x : xs = {x}
    PROVE  /\ delivery' \in [Contexts -> {"none", "pending", "reserved", "delivered", "withheld"}]
           /\ \A x \in Contexts : delivery'[x] = IF x \in xs THEN state ELSE delivery[x]
           /\ IsFiniteSet(Started')
<1>1. delivery \in [Contexts -> {"none", "pending", "reserved", "delivered", "withheld"}]
  BY DEF TypeOK
<1>2. \A x \in Contexts : delivery'[x] = IF x \in xs THEN state ELSE delivery[x]
  BY DEF Deliver
<1>3. delivery' \in [Contexts -> {"none", "pending", "reserved", "delivered", "withheld"}]
  BY <1>1 DEF Deliver
<1>4. CASE xs \subseteq Started
  <2>1. Started' \subseteq Started
    BY <1>2, <1>4 DEF Started
  <2>2. QED
    BY <1>2, <1>3, <2>1, FS_Subset
<1>5. CASE \E x : xs = {x}
  <2>1. PICK x : xs = {x}
    BY <1>5
  <2>2. IsFiniteSet(Started \union {x})
    BY FS_AddElement
  <2>3. Started' \subseteq Started \union {x}
    BY <1>2, <2>1 DEF Started
  <2>4. QED
    BY <1>2, <1>3, <2>2, <2>3, FS_Subset
<1>6. QED
  BY <1>4, <1>5

LEMMA NoneStarted ==
    /\ Rewakes \subseteq Contexts /\ Ordinary \subseteq Contexts /\ Startups \subseteq Contexts
    /\ \A x \in Contexts : delivery[x] # "none" <=> x \in Started
BY DEF Contexts, Started

LEMMA StartRewakeKeeps ==
    ASSUME IInv, StartRewake
    PROVE  IInv'
<1> USE DEF IInv, Sound
<1>1. Silent
  BY DEF StartRewake, BeginTurn, Silent, conversation, record, bounds
<1>2. Live' /\ Recorded'
  BY <1>1, SilentKeeps
<1>3. Told /\ run \in Runs /\ receipt' = receipt
  BY ReceiptHeld DEF TypeOK, conversation, StartRewake, BeginTurn
<1> USE <1>1, <1>3 DEF Silent
<1>4. PICK x \in Rewakes : delivery[x] = "pending" /\ Deliver({x}, "reserved") /\ BeginTurn({x})
  BY DEF StartRewake
<1>5. /\ delivery' \in [Contexts -> {"none", "pending", "reserved", "delivered", "withheld"}]
      /\ \A y \in Contexts : delivery'[y] = IF y = x THEN "reserved" ELSE delivery[y]
      /\ IsFiniteSet(Started') /\ x \in Contexts
  BY <1>4, Delivers, NoneStarted DEF Delivering
<1>6. run.step = "idle" /\ prompts < MaxPrompts /\ prompts' = prompts + 1 /\ held' = held
      /\ crashes' = crashes
  BY <1>4 DEF BeginTurn
<1>7. /\ run' \in Runs /\ run'.at = None /\ run'.refs = {} /\ run'.rewake = {x}
      /\ run'.corrections = 0 /\ run'.finished = FALSE /\ run'.corrected = FALSE
      /\ IF "turn" \in open
         THEN run'.step = "ending" /\ run'.outcome = "refused" /\ open' = open
         ELSE run'.step = "submit" /\ run'.outcome = None /\ open' = open \union {"turn"}
  <2>1. 0 \in 0..MaxPrompts /\ {x} \subseteq Rewakes
    BY NativeLoopAssumption
  <2>2. CASE "turn" \in open
    <3>1. run' = [Idle EXCEPT !.step = "ending", !.outcome = "refused", !.rewake = {x}] /\ open' = open
      BY <1>4, <2>2 DEF BeginTurn
    <3>2. run' = [step |-> "ending", at |-> None, refs |-> {}, rewake |-> {x}, corrections |-> 0,
                  finished |-> FALSE, corrected |-> FALSE, outcome |-> "refused"]
      BY <3>1 DEF Idle
    <3>3. run' \in Runs
      BY <2>1, <3>2 DEF Runs, Steps
    <3>4. /\ run'.step = "ending" /\ run'.at = None /\ run'.refs = {} /\ run'.rewake = {x}
          /\ run'.corrections = 0 /\ run'.finished = FALSE /\ run'.corrected = FALSE
          /\ run'.outcome = "refused"
      BY <3>2
    <3>5. QED
      BY <2>2, <3>1, <3>3, <3>4
  <2>3. CASE "turn" \notin open
    <3>1. run' = [Idle EXCEPT !.step = "submit", !.rewake = {x}] /\ open' = open \union {"turn"}
      BY <1>4, <2>3 DEF BeginTurn
    <3>2. run' = [step |-> "submit", at |-> None, refs |-> {}, rewake |-> {x}, corrections |-> 0,
                  finished |-> FALSE, corrected |-> FALSE, outcome |-> None]
      BY <3>1 DEF Idle
    <3>3. run' \in Runs
      BY <2>1, <3>2 DEF Runs, Steps
    <3>4. /\ run'.step = "submit" /\ run'.at = None /\ run'.refs = {} /\ run'.rewake = {x}
          /\ run'.corrections = 0 /\ run'.finished = FALSE /\ run'.corrected = FALSE
          /\ run'.outcome = None
      BY <3>2
    <3>5. QED
      BY <2>3, <3>1, <3>3, <3>4
  <2>4. QED
    BY <2>2, <2>3
<1>8. prompts' \in 0..MaxPrompts /\ run'.corrections <= prompts'
  BY <1>6, <1>7, NativeLoopAssumption DEF TypeOK
<1>9. open' \subseteq {"turn", "request", "compaction"} /\ run'.step \notin {"executing", "hooks"}
  BY <1>7 DEF TypeOK

<1>10. TypeOK'
  BY <1>5, <1>6, <1>7, <1>8, <1>9 DEF TypeOK
<1>11. Flow'
  BY <1>6, <1>7 DEF Flow, Quiet, Compacts, InTools, Closing, None
<1>12. Effects'
  BY <1>6, <1>7 DEF Effects, Told
<1>13. Delivering'
  BY <1>4, <1>5, <1>7 DEF Delivering, None
<1>14. Finished'
  BY <1>7 DEF Finished, InTools
<1>15. QED
  BY <1>2, <1>10, <1>11, <1>12, <1>13, <1>14

LEMMA ContextReadyKeeps ==
    ASSUME IInv, ContextReady
    PROVE  IInv'
<1> USE DEF IInv, Sound
<1>1. Silent
  BY DEF ContextReady, Silent, conversation, record, bounds
<1>2. Live' /\ Recorded'
  BY <1>1, SilentKeeps
<1>3. Told /\ run \in Runs /\ receipt' = receipt
  BY ReceiptHeld DEF TypeOK, conversation, ContextReady
<1> USE <1>1, <1>3 DEF Silent
<1>4. PICK x \in Contexts : delivery[x] = "none" /\ Deliver({x}, "pending")
  BY DEF ContextReady
<1>5. /\ delivery' \in [Contexts -> {"none", "pending", "reserved", "delivered", "withheld"}]
      /\ \A y \in Contexts : delivery'[y] = IF y = x THEN "pending" ELSE delivery[y]
      /\ IsFiniteSet(Started')
  BY <1>4, Delivers DEF Delivering
<1>6. /\ run' = run /\ open' = open /\ held' = held /\ prompts' = prompts /\ crashes' = crashes
  BY DEF ContextReady, bounds
<1>7. run.rewake \subseteq Contexts /\ run.refs \subseteq Contexts
  BY RunTypes, NoneStarted

<1>8. TypeOK'
  BY <1>5, <1>6 DEF TypeOK
<1>9. Flow'
  BY <1>6 DEF Flow, Quiet
<1>10. Effects'
  BY <1>6 DEF Effects
<1>11. Delivering'
  BY <1>4, <1>5, <1>6, <1>7 DEF Delivering
<1>12. Finished'
  BY <1>6 DEF Finished, Spoken
<1>13. QED
  BY <1>2, <1>8, <1>9, <1>10, <1>11, <1>12

LEMMA ReserveContextKeeps ==
    ASSUME IInv, ReserveContext
    PROVE  IInv'
<1> USE DEF IInv, Sound
<1>1. Silent
  BY DEF ReserveContext, Silent, conversation, record, bounds
<1>2. Live' /\ Recorded'
  BY <1>1, SilentKeeps
<1>3. Told /\ run \in Runs /\ receipt' = receipt
  BY ReceiptHeld DEF TypeOK, conversation, ReserveContext
<1> USE <1>1, <1>3 DEF Silent
<1>4. PICK xs \in Selections :
         /\ Deliver(xs, "reserved")
         /\ run' = [run EXCEPT !.step = "delivering", !.at = run.step, !.refs = xs]
  BY DEF ReserveContext
<1>5. xs \subseteq Contexts /\ \A x \in xs : delivery[x] = "pending"
  BY <1>4, NoneStarted DEF Selections, Pending
<1>6. /\ delivery' \in [Contexts -> {"none", "pending", "reserved", "delivered", "withheld"}]
      /\ \A y \in Contexts : delivery'[y] = IF y \in xs THEN "reserved" ELSE delivery[y]
      /\ IsFiniteSet(Started')
  <2>1. xs \subseteq Started
    BY <1>5, NoneStarted
  <2>2. QED
    BY <1>4, <1>5, <2>1, Delivers DEF Delivering
<1>7. /\ open' = open /\ held' = held /\ prompts' = prompts /\ crashes' = crashes
      /\ run.step \in {"context", "end"}
  BY DEF ReserveContext, bounds
<1>8. /\ run' \in Runs /\ run'.step = "delivering" /\ run'.at = run.step /\ run'.refs = xs
      /\ run'.rewake = run.rewake /\ run'.corrections = run.corrections /\ run'.finished = run.finished
      /\ run'.corrected = run.corrected /\ run'.outcome = run.outcome
  BY <1>4, <1>5, <1>7 DEF Runs, Steps
<1>9. run.rewake \subseteq Contexts
  BY RunTypes, NoneStarted

<1>10. TypeOK'
  BY <1>6, <1>7, <1>8 DEF TypeOK
<1>11. Flow'
  BY <1>7, <1>8 DEF Flow, Quiet, Compacts, InTools, Closing, None
<1>12. Effects'
  BY <1>7, <1>8 DEF Effects
<1>13. Delivering'
  BY <1>5, <1>6, <1>7, <1>8, <1>9 DEF Delivering
<1>14. Finished'
  BY <1>7, <1>8 DEF Finished, Spoken, InTools
<1>15. QED
  BY <1>2, <1>10, <1>11, <1>12, <1>13, <1>14

LEMMA CompleteContextKeeps ==
    ASSUME IInv, CompleteContext
    PROVE  IInv'
<1> USE DEF IInv, Sound
<1>1. Silent
  BY DEF CompleteContext, Silent, conversation, record, bounds
<1>2. Live' /\ Recorded'
  BY <1>1, SilentKeeps
<1>3. Told /\ run \in Runs /\ receipt' = receipt
  BY ReceiptHeld DEF TypeOK, conversation, CompleteContext
<1> USE <1>1, <1>3 DEF Silent
<1>4. run.step = "entered" /\ Deliver(run.refs, "delivered")
  BY DEF CompleteContext
<1>5. run.refs \subseteq Contexts /\ run.rewake \subseteq Contexts /\ run.refs \subseteq Carried(conv)
      /\ run.at \in {"context", "end"}
  BY <1>4, RunTypes, NoneStarted DEF Delivering, Flow
<1>6. /\ delivery' \in [Contexts -> {"none", "pending", "reserved", "delivered", "withheld"}]
      /\ \A y \in Contexts : delivery'[y] = IF y \in run.refs THEN "delivered" ELSE delivery[y]
      /\ IsFiniteSet(Started')
  <2>1. run.refs \subseteq Started
    BY <1>5, NoneStarted DEF Delivering
  <2>2. QED
    BY <1>4, <1>5, <2>1, Delivers DEF Delivering
<1>7. /\ open' = open /\ held' = held /\ prompts' = prompts /\ crashes' = crashes
  BY DEF CompleteContext, bounds
<1>8. /\ run' \in Runs /\ run'.step = After(run.at) /\ run'.at = None /\ run'.refs = {}
      /\ run'.rewake = run.rewake /\ run'.corrections = run.corrections /\ run'.finished = run.finished
      /\ (run'.corrected <=> run.corrected \/ run.at = "end") /\ run'.outcome = run.outcome
  <2>1. PICK b \in BOOLEAN : b <=> run.corrected \/ run.at = "end"
    OBVIOUS
  <2>2. PICK step \in {"admit", "round"} : step = After(run.at)
    BY DEF After
  <2>3. (run.corrected \/ run.at = "end") = b
    BY <2>1, RunTypes
  <2>4. run' = [run EXCEPT !.step = step, !.at = None, !.refs = {}, !.corrected = b]
    BY <2>2, <2>3 DEF CompleteContext
  <2>5. /\ run' \in Runs /\ run'.step = step /\ run'.at = None /\ run'.refs = {}
        /\ run'.rewake = run.rewake /\ run'.corrections = run.corrections /\ run'.finished = run.finished
        /\ run'.corrected = b /\ run'.outcome = run.outcome
    BY <2>4 DEF Runs, Steps
  <2>6. QED
    BY <2>1, <2>2, <2>5
<1>9. run'.step = IF run.at = "context" THEN "admit" ELSE "round"
  BY <1>8 DEF After

<1>10. TypeOK'
  BY <1>6, <1>7, <1>8, <1>9 DEF TypeOK
<1>11. Flow'
  BY <1>4, <1>7, <1>8, <1>9 DEF Flow, Quiet, Compacts, InTools, Closing, None
<1>12. Effects'
  BY <1>7, <1>8, <1>9 DEF Effects
<1>13. Delivering'
  BY <1>4, <1>5, <1>6, <1>8, <1>9 DEF Delivering
<1>14. Finished'
  BY <1>5, <1>8, <1>9 DEF Finished, Spoken, InTools
<1>15. QED
  BY <1>2, <1>10, <1>11, <1>12, <1>13, <1>14

LEMMA IdleRun ==
    /\ Idle \in Runs /\ Idle.step = "idle" /\ Idle.at = None /\ Idle.refs = {} /\ Idle.rewake = {}
    /\ Idle.corrections = 0 /\ Idle.finished = FALSE /\ Idle.corrected = FALSE
    /\ Idle.outcome = None
<1>1. 0 \in 0..MaxPrompts
  BY NativeLoopAssumption
<1>2. QED
  BY <1>1 DEF Idle, Runs, Steps

LEMMA BeginModelKeeps ==
    ASSUME IInv, BeginModel
    PROVE  IInv'
<1> USE DEF IInv, Sound
<1>1. Silent
  BY DEF BeginModel, Silent, conversation, record, bounds
<1>2. Live' /\ Recorded'
  BY <1>1, SilentKeeps
<1>3. Told /\ run \in Runs /\ receipt' = receipt
  BY ReceiptHeld DEF TypeOK, conversation, BeginModel
<1> USE <1>1, <1>3 DEF Silent
<1>4. PICK xs : xs = Pending(Startups)
  OBVIOUS
<1>5. xs \subseteq Contexts /\ \A x \in xs : delivery[x] = "pending"
  BY <1>4, NoneStarted DEF Pending
<1>6. /\ delivery' \in [Contexts -> {"none", "pending", "reserved", "delivered", "withheld"}]
      /\ \A y \in Contexts : delivery'[y] = IF y \in xs THEN "reserved" ELSE delivery[y]
      /\ IsFiniteSet(Started')
  <2>1. xs \subseteq Started
    BY <1>5, NoneStarted
  <2>2. Deliver(xs, "reserved")
    BY <1>4 DEF BeginModel
  <2>3. QED
    BY <1>5, <2>1, <2>2, Delivers DEF Delivering
<1>7. /\ open' = open \union {"request"} /\ held' = held /\ prompts' = prompts /\ crashes' = crashes
      /\ run.step = "admit"
  BY DEF BeginModel, bounds
<1>8. /\ run' \in Runs /\ run'.step = (IF xs = {} THEN "requested" ELSE "preparing") /\ run'.at = run.at
      /\ run'.refs = xs
      /\ run'.rewake = run.rewake /\ run'.corrections = run.corrections /\ run'.finished = run.finished
      /\ run'.corrected = run.corrected /\ run'.outcome = run.outcome
  <2>1. PICK step \in {"requested", "preparing"} : step = IF xs = {} THEN "requested" ELSE "preparing"
    OBVIOUS
  <2>2. run' = [run EXCEPT !.refs = xs, !.step = step]
    BY <1>4, <2>1 DEF BeginModel
  <2>3. /\ run' \in Runs /\ run'.step = step /\ run'.at = run.at
        /\ run'.refs = xs
        /\ run'.rewake = run.rewake /\ run'.corrections = run.corrections /\ run'.finished = run.finished
        /\ run'.corrected = run.corrected /\ run'.outcome = run.outcome
    BY <1>5, <2>2 DEF Runs, Steps
  <2>4. QED
    BY <2>1, <2>3
<1>9. run.rewake \subseteq Contexts
  BY RunTypes, NoneStarted

<1>10. TypeOK'
  BY <1>6, <1>7, <1>8 DEF TypeOK
<1>11. Flow'
  BY <1>7, <1>8 DEF Flow, Quiet, Compacts, InTools, Closing, None
<1>12. Effects'
  BY <1>7, <1>8 DEF Effects
<1>13. Delivering'
  BY <1>5, <1>6, <1>7, <1>8, <1>9 DEF Delivering
<1>14. Finished'
  BY <1>7, <1>8 DEF Finished, Spoken, InTools
<1>15. QED
  BY <1>2, <1>10, <1>11, <1>12, <1>13, <1>14

LEMMA CompleteStartupKeeps ==
    ASSUME IInv, CompleteStartup
    PROVE  IInv'
<1> USE DEF IInv, Sound
<1>1. Silent
  BY DEF CompleteStartup, Silent, conversation, record, bounds
<1>2. Live' /\ Recorded'
  BY <1>1, SilentKeeps
<1>3. Told /\ run \in Runs /\ receipt' = receipt
  BY ReceiptHeld DEF TypeOK, conversation, CompleteStartup
<1> USE <1>1, <1>3 DEF Silent
<1>4. run.step = "answered" /\ Deliver(run.refs, "delivered")
  BY DEF CompleteStartup
<1>5. run.refs \subseteq Contexts /\ run.rewake \subseteq Contexts /\ run.refs \subseteq Carried(conv)
  BY <1>4, RunTypes, NoneStarted DEF Delivering, Flow
<1>6. /\ delivery' \in [Contexts -> {"none", "pending", "reserved", "delivered", "withheld"}]
      /\ \A y \in Contexts : delivery'[y] = IF y \in run.refs THEN "delivered" ELSE delivery[y]
      /\ IsFiniteSet(Started')
  <2>1. run.refs \subseteq Started
    BY <1>5, NoneStarted DEF Delivering
  <2>2. QED
    BY <1>4, <1>5, <2>1, Delivers DEF Delivering
<1>7. /\ open' = open /\ held' = held /\ prompts' = prompts /\ crashes' = crashes
  BY DEF CompleteStartup, bounds
<1>8. /\ run' \in Runs /\ run'.step = "recorded" /\ run'.at = run.at /\ run'.refs = {}
      /\ run'.rewake = run.rewake /\ run'.corrections = run.corrections /\ run'.finished = run.finished
      /\ run'.corrected = run.corrected /\ run'.outcome = run.outcome
  BY DEF CompleteStartup, Runs, Steps

<1>9. TypeOK'
  BY <1>6, <1>7, <1>8 DEF TypeOK
<1>10. Flow'
  BY <1>4, <1>7, <1>8 DEF Flow, Quiet, Compacts, InTools, Closing, None
<1>11. Effects'
  BY <1>4, <1>7, <1>8 DEF Effects
<1>12. Delivering'
  BY <1>4, <1>5, <1>6, <1>8 DEF Delivering
<1>13. Finished'
  BY <1>4, <1>8 DEF Finished, Spoken, InTools
<1>14. QED
  BY <1>2, <1>9, <1>10, <1>11, <1>12, <1>13

LEMMA CloseKeeps ==
    ASSUME IInv, Close
    PROVE  IInv'
<1> USE DEF IInv, Sound
<1>1. Silent
  BY DEF Close, Silent, conversation, record, bounds
<1>2. Live' /\ Recorded'
  BY <1>1, SilentKeeps
<1>3. Told /\ run \in Runs /\ receipt' = receipt
  BY ReceiptHeld DEF TypeOK, conversation, Close
<1> USE <1>1, <1>3 DEF Silent
<1>4. run.step = "closing" /\ Deliver(Withheld, "withheld")
  BY DEF Close
<1>5. run.refs \subseteq Contexts /\ run.rewake \subseteq Contexts /\ Withheld \subseteq Started
      /\ Withheld \subseteq Contexts
  BY RunTypes, NoneStarted DEF Withheld
<1>6. /\ delivery' \in [Contexts -> {"none", "pending", "reserved", "delivered", "withheld"}]
      /\ \A y \in Contexts : delivery'[y] = IF y \in Withheld THEN "withheld" ELSE delivery[y]
      /\ IsFiniteSet(Started')
  BY <1>4, <1>5, Delivers DEF Delivering
<1>7. /\ open' = open /\ held' = held /\ prompts' = prompts /\ crashes' = crashes
  BY DEF Close, bounds
<1>8. /\ run' \in Runs /\ run'.step \in {"saving", "finishing"} /\ run'.at = run.at /\ run'.refs = run.refs
      /\ run'.rewake = run.rewake /\ run'.corrections = run.corrections /\ run'.finished = run.finished
      /\ run'.corrected = run.corrected /\ run'.outcome = run.outcome
  <2>1. PICK step \in {"saving", "finishing"} : Go(step)
    BY DEF Close
  <2>2. step \in Steps
    BY DEF Steps
  <2>3. QED
    BY <2>1, <2>2, Goes

<1>9. TypeOK'
  BY <1>6, <1>7, <1>8 DEF TypeOK
<1>10. Flow'
  BY <1>4, <1>7, <1>8 DEF Flow, Quiet, Compacts, InTools, Closing, None
<1>11. Effects'
  BY <1>4, <1>7, <1>8 DEF Effects
<1>12. Delivering'
  BY <1>4, <1>5, <1>6, <1>8 DEF Delivering
<1>13. Finished'
  BY <1>4, <1>8 DEF Finished, Spoken, InTools
<1>14. QED
  BY <1>2, <1>9, <1>10, <1>11, <1>12, <1>13

LEMMA FinishPhaseKeeps ==
    ASSUME IInv, FinishPhase
    PROVE  IInv'
<1> USE DEF IInv, Sound
<1>1. Silent
  BY DEF FinishPhase, Silent, conversation, record, bounds
<1>2. Live' /\ Recorded'
  BY <1>1, SilentKeeps
<1>3. Told /\ run \in Runs /\ receipt' = receipt
  BY ReceiptHeld DEF TypeOK, conversation, FinishPhase
<1> USE <1>1, <1>3 DEF Silent
<1>4. run.step = "finishing" /\ run.rewake \subseteq Contexts
  BY RunTypes, NoneStarted DEF FinishPhase
<1>5. /\ delivery' \in [Contexts -> {"none", "pending", "reserved", "delivered", "withheld"}]
      /\ IsFiniteSet(Started')
      /\ \A y \in Contexts : \/ delivery'[y] = delivery[y]
                             \/ delivery'[y] = "delivered" /\ y \in Carried(conv)
  <2>1. CASE run.outcome = "complete"
    <3>1. Deliver(run.rewake, "delivered") /\ run.rewake \subseteq Carried(conv)
      BY <1>4, <2>1 DEF FinishPhase, Delivering
    <3>2. run.rewake \subseteq Started \/ \E x : run.rewake = {x}
      BY DEF Delivering
    <3>3. /\ delivery' \in [Contexts -> {"none", "pending", "reserved", "delivered", "withheld"}]
          /\ \A y \in Contexts : delivery'[y] = IF y \in run.rewake THEN "delivered" ELSE delivery[y]
          /\ IsFiniteSet(Started')
      <4>1. run.rewake \in SUBSET Contexts /\ IsFiniteSet(Started)
        BY <1>4 DEF Delivering
      <4>2. QED
        BY <3>1, <3>2, <4>1, Delivers
    <3>4. QED
      BY <3>1, <3>3
  <2>2. CASE run.outcome # "complete"
    <3>1. delivery' = delivery
      BY <2>2 DEF FinishPhase
    <3>2. QED
      BY <3>1 DEF TypeOK, Delivering, Started
  <2>3. QED
    BY <2>1, <2>2
<1>6. /\ open' = open /\ held' \in BOOLEAN /\ prompts' = prompts /\ crashes' = crashes
  BY DEF FinishPhase, bounds, TypeOK
<1>7. /\ run' = Idle /\ run'.step = "idle" /\ run'.at = None /\ run'.refs = {} /\ run'.rewake = {}
      /\ run'.corrections = 0 /\ run'.finished = FALSE /\ run'.corrected = FALSE /\ run'.outcome = None
      /\ run' \in Runs
  BY IdleRun DEF FinishPhase

<1>8. TypeOK'
  BY <1>5, <1>6, <1>7, NativeLoopAssumption DEF TypeOK
<1>9. Flow'
  BY <1>4, <1>6, <1>7 DEF Flow, Quiet, Compacts, InTools, Closing, None
<1>10. Effects'
  BY <1>7 DEF Effects, Told
<1>11. Delivering'
  BY <1>5, <1>7 DEF Delivering
<1>12. Finished'
  BY <1>7 DEF Finished, InTools
<1>13. QED
  BY <1>2, <1>8, <1>9, <1>10, <1>11, <1>12

LEMMA CleanupTimesOutKeeps ==
    ASSUME IInv, CleanupTimesOut
    PROVE  IInv'
<1> USE DEF IInv, Sound
<1>1. Silent
  BY DEF CleanupTimesOut, Silent, conversation, record, bounds
<1>2. Live' /\ Recorded'
  BY <1>1, SilentKeeps
<1>3. Told /\ run \in Runs /\ receipt' = receipt
  BY ReceiptHeld DEF TypeOK, conversation, CleanupTimesOut
<1> USE <1>1, <1>3 DEF Silent
<1>4. run.step = "dropped" /\ Deliver(Withheld, "withheld")
  BY DEF CleanupTimesOut
<1>5. Withheld \subseteq Started /\ Withheld \subseteq Contexts
  BY NoneStarted DEF Withheld
<1>6. /\ delivery' \in [Contexts -> {"none", "pending", "reserved", "delivered", "withheld"}]
      /\ \A y \in Contexts : delivery'[y] = IF y \in Withheld THEN "withheld" ELSE delivery[y]
      /\ IsFiniteSet(Started')
  BY <1>4, <1>5, Delivers DEF Delivering
<1>7. /\ open' = open /\ held' = held /\ prompts' = prompts /\ crashes' = crashes
  BY DEF CleanupTimesOut, bounds
<1>8. /\ run' = Idle /\ run'.step = "idle" /\ run'.at = None /\ run'.refs = {} /\ run'.rewake = {}
      /\ run'.corrections = 0 /\ run'.finished = FALSE /\ run'.corrected = FALSE /\ run'.outcome = None
      /\ run' \in Runs
  BY IdleRun DEF CleanupTimesOut

<1>9. TypeOK'
  BY <1>6, <1>7, <1>8, NativeLoopAssumption DEF TypeOK
<1>10. Flow'
  BY <1>4, <1>7, <1>8 DEF Flow, Quiet, Compacts, InTools, Closing, None
<1>11. Effects'
  BY <1>8 DEF Effects, Told
<1>12. Delivering'
  BY <1>6, <1>8 DEF Delivering
<1>13. Finished'
  BY <1>8 DEF Finished, InTools
<1>14. QED
  BY <1>2, <1>9, <1>10, <1>11, <1>12, <1>13

-----------------------------------------------------------------------------
(* Steps that save the conversation.                                       *)
Saved == [conv : Conversations, pending : Seq(Calls), cursor : SUBSET Calls]

LEMMA Checkpoints ==
    ASSUME NEW c \in Conversations, NEW p \in Seq(Calls), Good(c, p, abandoned, ledger),
           \A k \in DOMAIN p : ledger[p[k]] = "none" \/ p[k] \in abandoned,
           Checkpoint(c, p), conv' = c, pending' = p, ledger' = ledger, abandoned' = abandoned
    PROVE  Live' /\ Recorded' /\ saved' \in Saved
<1>1. PICK cursor : cursor = {x \in Calls : ledger[x] # "none"}
  OBVIOUS
<1>2. saved' = [conv |-> c, pending |-> p, cursor |-> cursor]
  BY <1>1 DEF Checkpoint
<1>3. saved'.conv = c /\ saved'.pending = p /\ saved'.cursor = cursor
  BY <1>2
<1>4. saved' \in Saved
  BY <1>1, <1>2 DEF Saved
<1>5. \A k \in DOMAIN p : p[k] \notin Answered(c.entries)
  BY DEF Good, Shape, Waiting
<1>6. \A k \in DOMAIN p : p[k] \notin cursor \ abandoned
  BY <1>1
<1>7. Live'
  BY DEF Live
<1>8. Recorded'
  BY <1>3, <1>5, <1>6 DEF Recorded
<1>9. QED
  BY <1>4, <1>7, <1>8

LEMMA TakeCallsKeeps ==
    ASSUME IInv, TakeCalls
    PROVE  IInv'
<1> USE DEF IInv, Sound
<1>1. /\ conv' = conv /\ pending' = pending /\ receipt' = receipt /\ ledger' = ledger
      /\ delivery' = delivery /\ open' = open /\ held' = held /\ abandoned' = abandoned
      /\ prompts' = prompts /\ crashes' = crashes /\ Checkpoint(conv, pending)
  BY DEF TakeCalls, conversation, bounds
<1>2. Live' /\ Recorded' /\ saved' \in Saved
  <2>1. \A k \in DOMAIN pending : ledger[pending[k]] = "none" \/ pending[k] \in abandoned
    BY DEF TakeCalls, Effects, Flow, Quiet, InTools
  <2>2. conv \in Conversations /\ pending \in Seq(Calls) /\ Good(conv, pending, abandoned, ledger)
    BY DEF TypeOK, Live
  <2>3. QED
    BY <1>1, <2>1, <2>2, Checkpoints
<1>3. run \in Runs
  BY DEF TypeOK
<1>4. run.step = "recorded" /\ Go("tools") /\ "tools" \in Steps
  BY DEF TakeCalls, Steps
<1>5. /\ run' \in Runs /\ run'.step = "tools"
      /\ run'.at = run.at /\ run'.refs = run.refs /\ run'.rewake = run.rewake
      /\ run'.corrections = run.corrections /\ run'.finished = run.finished
      /\ run'.corrected = run.corrected /\ run'.outcome = run.outcome
  BY <1>3, <1>4, Goes

<1>6. TypeOK'
  BY <1>1, <1>2, <1>5 DEF TypeOK, Saved
<1>7. Flow'
  BY <1>1, <1>4, <1>5 DEF Flow, Quiet, Compacts, InTools, Closing, None
<1>8. Effects'
  BY <1>1, <1>4, <1>5 DEF Effects
<1>9. Delivering'
  BY <1>1, <1>4, <1>5 DEF Delivering, Started
<1>10. Finished'
  BY <1>1, <1>4, <1>5, RunTypes DEF Finished, Spoken, InTools
<1>11. QED
  BY <1>2, <1>6, <1>7, <1>8, <1>9, <1>10

LEMMA SaveEndKeeps ==
    ASSUME IInv, SaveEnd
    PROVE  IInv'
<1> USE DEF IInv, Sound
<1>1. /\ conv' = conv /\ pending' = pending /\ receipt' = receipt /\ ledger' = ledger
      /\ delivery' = delivery /\ open' = open /\ held' = held /\ abandoned' = abandoned
      /\ prompts' = prompts /\ crashes' = crashes /\ Checkpoint(conv, pending)
  BY DEF SaveEnd, conversation, bounds
<1>2. Live' /\ Recorded' /\ saved' \in Saved
  <2>1. \A k \in DOMAIN pending : ledger[pending[k]] = "none" \/ pending[k] \in abandoned
    BY DEF SaveEnd, Effects, Flow, Quiet, InTools
  <2>2. conv \in Conversations /\ pending \in Seq(Calls) /\ Good(conv, pending, abandoned, ledger)
    BY DEF TypeOK, Live
  <2>3. QED
    BY <1>1, <2>1, <2>2, Checkpoints
<1>3. run \in Runs
  BY DEF TypeOK
<1>4. run.step = "saving" /\ Go("finishing") /\ "finishing" \in Steps
  BY DEF SaveEnd, Steps
<1>5. /\ run' \in Runs /\ run'.step = "finishing"
      /\ run'.at = run.at /\ run'.refs = run.refs /\ run'.rewake = run.rewake
      /\ run'.corrections = run.corrections /\ run'.finished = run.finished
      /\ run'.corrected = run.corrected /\ run'.outcome = run.outcome
  BY <1>3, <1>4, Goes

<1>6. TypeOK'
  BY <1>1, <1>2, <1>5 DEF TypeOK, Saved
<1>7. Flow'
  BY <1>1, <1>4, <1>5 DEF Flow, Quiet, Compacts, InTools, Closing, None
<1>8. Effects'
  BY <1>1, <1>4, <1>5 DEF Effects
<1>9. Delivering'
  BY <1>1, <1>4, <1>5 DEF Delivering, Started
<1>10. Finished'
  BY <1>1, <1>4, <1>5, RunTypes DEF Finished, Spoken, InTools
<1>11. QED
  BY <1>2, <1>6, <1>7, <1>8, <1>9, <1>10

LEMMA EndRoundKeeps ==
    ASSUME IInv, EndRound
    PROVE  IInv'
<1> USE DEF IInv, Sound
<1>1. /\ conv' = conv /\ pending' = pending /\ receipt' = receipt /\ ledger' = ledger
      /\ delivery' = delivery /\ open' = open /\ held' = held /\ abandoned' = abandoned
      /\ prompts' = prompts /\ crashes' = crashes /\ Checkpoint(conv, pending)
  BY DEF EndRound, conversation, bounds
<1>2. Live' /\ Recorded' /\ saved' \in Saved
  <2>1. \A k \in DOMAIN pending : ledger[pending[k]] = "none" \/ pending[k] \in abandoned
    BY DEF EndRound, Effects, Flow, Quiet, InTools
  <2>2. conv \in Conversations /\ pending \in Seq(Calls) /\ Good(conv, pending, abandoned, ledger)
    BY DEF TypeOK, Live
  <2>3. QED
    BY <1>1, <2>1, <2>2, Checkpoints
<1>3. run \in Runs
  BY DEF TypeOK
<1>4. run.step = "round" /\ \E step \in {"stop", "top"} :
         Go(step) /\ step \in Steps /\ (step = "stop" => run.finished /\ ~run.corrected)
  BY DEF EndRound, Steps
<1>5. /\ run' \in Runs /\ run'.step \in {"stop", "top"}
      /\ (run'.step = "stop" => run.finished /\ ~run.corrected)
      /\ run'.at = run.at /\ run'.refs = run.refs /\ run'.rewake = run.rewake
      /\ run'.corrections = run.corrections /\ run'.finished = run.finished
      /\ run'.corrected = run.corrected /\ run'.outcome = run.outcome
  BY <1>3, <1>4, Goes

<1>6. TypeOK'
  BY <1>1, <1>2, <1>5 DEF TypeOK, Saved
<1>7. Flow'
  BY <1>1, <1>4, <1>5 DEF Flow, Quiet, Compacts, InTools, Closing, None
<1>8. Effects'
  BY <1>1, <1>4, <1>5 DEF Effects
<1>9. Delivering'
  BY <1>1, <1>4, <1>5 DEF Delivering, Started
<1>10. Finished'
  BY <1>1, <1>4, <1>5, RunTypes DEF Finished, Spoken, InTools
<1>11. QED
  BY <1>2, <1>6, <1>7, <1>8, <1>9, <1>10

-----------------------------------------------------------------------------
(* Steps that say something that is neither a call nor a result.           *)
\* What is said, and added to what the conversation carries.
New(t) == {x \in Contexts : \E i \in DOMAIN t : t[i] = Context(x)}
Fresh(t) ==
    /\ t \in Seq(Entries) /\ Plain(t)
    /\ \A i, j \in DOMAIN t : t[i].is = "context" /\ t[j] = t[i] => i = j
    /\ \A i \in DOMAIN t : t[i].is = "context" => t[i].of \notin Carried(conv)

LEMMA SavesText ==
    ASSUME IInv, Quiet, NEW t, Fresh(t), Say(t), Checkpoint(With(conv, t), pending),
           pending' = pending, ledger' = ledger, abandoned' = abandoned
    PROVE  /\ Live' /\ Recorded' /\ saved' \in Saved /\ conv' \in Conversations
           /\ Carried(conv') = Carried(conv) \union New(t)
<1>1. conv \in Conversations /\ t \in Seq(Entries) /\ Good(conv, pending, abandoned, ledger)
  BY DEF IInv, Sound, TypeOK, Live, Fresh
<1>2. /\ Good(With(conv, t), pending, abandoned, ledger)
      /\ Carried(With(conv, t)) = Carried(conv) \union New(t)
  BY <1>1, SayPlain DEF Quiet, Fresh, New
<1>3. With(conv, t) \in Conversations
  BY <1>1, Said
<1>4. conv' = With(conv, t)
  BY DEF Say
<1>5. pending \in Seq(Calls) /\ \A k \in DOMAIN pending : ledger[pending[k]] = "none" \/ pending[k] \in abandoned
  BY DEF IInv, TypeOK, Quiet
<1>6. Live' /\ Recorded' /\ saved' \in Saved
  BY <1>2, <1>3, <1>4, <1>5, Checkpoints
<1>7. QED
  BY <1>2, <1>3, <1>4, <1>6

\* Prompts and notes.
LEMMA Words ==
    ASSUME NEW t \in Seq({Prompt, Note, Answer})
    PROVE  Fresh(t) /\ New(t) = {}
<1>1. \A i \in DOMAIN t : t[i] \in {Prompt, Note, Answer}
  OBVIOUS
<1>2. \A i \in DOMAIN t : t[i].is \in {"prompt", "note", "answer"}
  BY <1>1, Made
<1>3. t \in Seq(Entries)
  BY <1>1, Made
<1>4. New(t) = {}
  BY <1>2, Made DEF New
<1>5. QED
  BY <1>2, <1>3, <1>4 DEF Fresh, Plain

LEMMA SubmitKeeps ==
    ASSUME IInv, Submit
    PROVE  IInv'
<1> USE DEF IInv, Sound
<1>1. /\ pending' = pending /\ receipt' = receipt /\ ledger' = ledger
      /\ delivery' = delivery /\ open' = open /\ held' = held /\ abandoned' = abandoned
      /\ prompts' = prompts /\ crashes' = crashes /\ run.step = "submit" /\ Go("top")
  BY DEF Submit, bounds
<1>2. PICK t : /\ t = IF run.rewake = {} THEN <<Prompt>>
                      ELSE [i \in 1..1 |-> Context(CHOOSE x \in run.rewake : TRUE)]
               /\ Say(t) /\ Checkpoint(With(conv, t), pending)
  BY DEF Submit
<1>3. Fresh(t) /\ New(t) = run.rewake
  <2>1. CASE run.rewake = {}
    <3>1. t \in Seq({Prompt, Note, Answer})
      BY <1>2, <2>1
    <3>2. QED
      BY <2>1, <3>1, Words
  <2>2. CASE run.rewake # {}
    <3>1. PICK x \in Rewakes : run.rewake = {x}
      BY <2>2 DEF Delivering
    <3>2. x \in Contexts /\ x \notin Carried(conv)
      BY <1>1, <3>1, NoneStarted DEF Delivering
    <3>3. (CHOOSE y \in run.rewake : TRUE) = x
      BY <3>1
    <3>4. t = [i \in 1..1 |-> Context(x)]
      BY <1>2, <2>2, <3>3
    <3>5. Context(x) \in Entries /\ Context(x).is = "context" /\ Context(x).of = x
      BY <3>2, Made
    <3>6. DOMAIN t = {1} /\ t[1] = Context(x) /\ t \in Seq(Entries)
      BY <3>4, <3>5
    <3>7. New(t) = {x}
      BY <3>2, <3>5, <3>6, Made DEF New
    <3>8. QED
      BY <3>1, <3>2, <3>5, <3>6, <3>7 DEF Fresh, Plain
  <2>3. QED
    BY <2>1, <2>2
<1>4. /\ Live' /\ Recorded' /\ saved' \in Saved /\ conv' \in Conversations
      /\ Carried(conv') = Carried(conv) \union run.rewake
  <2>1. Quiet
    BY <1>1 DEF Flow, InTools
  <2>2. QED
    BY <1>1, <1>2, <1>3, <2>1, SavesText
<1>5. /\ run' \in Runs /\ run'.step = "top"
      /\ run'.at = run.at /\ run'.refs = run.refs /\ run'.rewake = run.rewake
      /\ run'.corrections = run.corrections /\ run'.finished = run.finished
      /\ run'.corrected = run.corrected /\ run'.outcome = run.outcome
  BY <1>1, Goes DEF TypeOK, Steps
<1>6. run.rewake \subseteq Contexts /\ \A x \in run.rewake : delivery[x] = "reserved"
  BY <1>1, NoneStarted, RunTypes DEF Delivering, TypeOK

<1>7. TypeOK'
  BY <1>1, <1>4, <1>5 DEF TypeOK, Saved
<1>8. Flow'
  BY <1>1, <1>5 DEF Flow, Quiet, Compacts, InTools, Closing, None
<1>9. Effects'
  BY <1>1, <1>5 DEF Effects
<1>10. Delivering'
  BY <1>1, <1>4, <1>5, <1>6 DEF Delivering, Started
<1>11. Finished'
  BY <1>1, <1>5 DEF Finished, Spoken, InTools
<1>12. QED
  BY <1>4, <1>7, <1>8, <1>9, <1>10, <1>11

LEMMA SubmitCorrectionsKeeps ==
    ASSUME IInv, SubmitCorrections
    PROVE  IInv'
<1> USE DEF IInv, Sound
<1>1. /\ pending' = pending /\ receipt' = receipt /\ ledger' = ledger /\ saved' = saved
      /\ delivery' = delivery /\ open' = open /\ held' = held /\ abandoned' = abandoned
      /\ prompts' = prompts /\ crashes' = crashes /\ run.step \in {"top", "round"}
  BY DEF SubmitCorrections, record, bounds
<1>2. PICK t : t = [i \in 1..run.corrections |-> Prompt] /\ conv' = With(conv, t)
  BY DEF SubmitCorrections, Say
<1>3. Fresh(t) /\ New(t) = {} /\ t \in Seq(Entries)
  <2>1. run.corrections \in Nat
    BY RunTypes, NativeLoopAssumption DEF TypeOK
  <2>2. t \in Seq({Prompt, Note, Answer})
    BY <1>2, <2>1
  <2>3. QED
    BY <2>2, Words DEF Fresh
<1>4. /\ Good(conv', pending, abandoned, ledger) /\ Carried(conv') = Carried(conv)
      /\ CallsIn(conv'.entries) = CallsIn(conv.entries) /\ conv'.gone = conv.gone
      /\ conv' \in Conversations
  <2>1. Quiet /\ conv \in Conversations /\ Good(conv, pending, abandoned, ledger)
    BY <1>1 DEF Flow, InTools, TypeOK, Live
  <2>2. QED
    <3>1. /\ Good(With(conv, t), pending, abandoned, ledger)
          /\ Carried(With(conv, t)) = Carried(conv) \union New(t)
          /\ CallsIn(With(conv, t).entries) = CallsIn(conv.entries)
      BY <1>3, <2>1, SayPlain DEF Quiet, Fresh, New
    <3>2. With(conv, t).gone = conv.gone /\ With(conv, t) \in Conversations
      BY <1>3, <2>1, Said
    <3>3. QED
      BY <1>2, <1>3, <3>1, <3>2
<1>5. Live' /\ Recorded'
  BY <1>1, <1>4 DEF Live, Recorded
<1>6. /\ run' \in Runs /\ run'.step = run.step
      /\ run'.at = run.at /\ run'.refs = run.refs /\ run'.rewake = run.rewake
      /\ run'.corrections = 0 /\ run'.finished = run.finished
      /\ (run.step = "round" => run'.corrected) /\ run'.outcome = run.outcome
  <2>1. PICK b \in BOOLEAN : b = (run.step = "round")
    OBVIOUS
  <2>2. run' = [run EXCEPT !.corrections = 0, !.corrected = b]
    BY <2>1 DEF SubmitCorrections
  <2>3. 0 \in 0..MaxPrompts
    BY NativeLoopAssumption
  <2>4. QED
    BY <2>1, <2>2, <2>3 DEF TypeOK, Runs

<1>7. TypeOK'
  BY <1>1, <1>6, <1>4, NativeLoopAssumption DEF TypeOK
<1>8. Flow'
  BY <1>1, <1>6 DEF Flow, Quiet, Compacts, InTools, Closing, None
<1>9. Effects'
  BY <1>1, <1>6 DEF Effects
<1>10. Delivering'
  BY <1>1, <1>6, <1>4 DEF Delivering, Started
<1>11. Finished'
  BY <1>1, <1>6 DEF Finished, Spoken, InTools
<1>12. QED
  BY <1>5, <1>7, <1>8, <1>9, <1>10, <1>11

LEMMA EndCompactionKeeps ==
    ASSUME IInv, EndCompaction
    PROVE  IInv'
<1> USE DEF IInv, Sound
<1>1. /\ pending' = pending /\ receipt' = receipt /\ ledger' = ledger
      /\ delivery' = delivery /\ open' = open \ {"compaction"} /\ held' = held /\ abandoned' = abandoned
      /\ prompts' = prompts /\ crashes' = crashes /\ run.step = "compacted" /\ run.at \in {"idle", "top"}
  BY DEF EndCompaction, bounds, Flow, Compacts
<1>2. PICK t \in {<<>>, <<Note>>} :
         Say(t) /\ IF t = <<>> THEN saved' = saved ELSE Checkpoint(With(conv, t), pending)
  BY DEF EndCompaction
<1>3. Quiet /\ pending = <<>>
  BY <1>1 DEF Flow, InTools, Compacts
<1>4. /\ Live' /\ Recorded' /\ saved' \in Saved /\ conv' \in Conversations
      /\ Carried(conv') = Carried(conv)
  <2>1. CASE t = <<>>
    <3>1. t \in Seq({Prompt, Note, Answer})
      BY <2>1
    <3>2. Fresh(t) /\ New(t) = {} /\ t \in Seq(Entries)
      BY <3>1, Words DEF Fresh
    <3>3. conv' = With(conv, t) /\ saved' = saved
      BY <1>2, <2>1 DEF Say
    <3>4. /\ Good(conv', pending, abandoned, ledger) /\ Carried(conv') = Carried(conv)
          /\ CallsIn(conv'.entries) = CallsIn(conv.entries) /\ conv'.gone = conv.gone
          /\ conv' \in Conversations
      <4>1. conv \in Conversations /\ Good(conv, pending, abandoned, ledger)
        BY DEF TypeOK, Live
      <4>2. QED
        <5>1. /\ Good(With(conv, t), pending, abandoned, ledger)
              /\ Carried(With(conv, t)) = Carried(conv) \union New(t)
              /\ CallsIn(With(conv, t).entries) = CallsIn(conv.entries)
          BY <1>3, <3>2, <4>1, SayPlain DEF Quiet, Fresh, New
        <5>2. With(conv, t).gone = conv.gone /\ With(conv, t) \in Conversations
          BY <3>2, <4>1, Said
        <5>3. QED
          BY <3>2, <3>3, <5>1, <5>2
    <3>5. QED
      BY <1>1, <3>3, <3>4 DEF Live, Recorded, TypeOK, Saved
  <2>2. CASE t # <<>>
    <3>1. t = <<Note>>
      BY <1>2, <2>2
    <3>2. t \in Seq({Prompt, Note, Answer})
      BY <3>1
    <3>3. Fresh(t) /\ New(t) = {}
      BY <3>2, Words
    <3>4. Say(t) /\ Checkpoint(With(conv, t), pending)
      BY <1>2, <2>2
    <3>5. QED
      BY <1>1, <1>3, <3>3, <3>4, SavesText
  <2>3. QED
    BY <2>1, <2>2
<1>5. /\ run' \in Runs /\ run'.step = IF run.at = "idle" THEN "finishing" ELSE "context"
      /\ run'.at = (IF run.at = "idle" THEN "idle" ELSE None) /\ run'.refs = run.refs /\ run'.rewake = run.rewake
      /\ run'.corrections = run.corrections /\ run'.finished = run.finished
      /\ run'.corrected = run.corrected /\ run'.outcome = run.outcome
  <2>1. run \in Runs
    BY DEF TypeOK
  <2>2. CASE run.at = "idle"
    <3>1. run' = [run EXCEPT !.at = "idle", !.step = "finishing"]
      BY <2>2 DEF EndCompaction
    <3>2. QED
      BY <2>1, <2>2, <3>1 DEF Runs, Steps
  <2>3. CASE run.at # "idle"
    <3>1. run' = [run EXCEPT !.at = None, !.step = "context"]
      BY <2>3 DEF EndCompaction
    <3>2. QED
      BY <2>1, <2>3, <3>1 DEF Runs, Steps
  <2>4. QED
    BY <2>2, <2>3

<1>6. TypeOK'
  BY <1>1, <1>4, <1>3, <1>5 DEF TypeOK, Saved
<1>7. Flow'
  BY <1>1, <1>3, <1>5 DEF Flow, Quiet, Compacts, InTools, Closing, None
<1>8. Effects'
  BY <1>1, <1>3, <1>5 DEF Effects
<1>9. Delivering'
  BY <1>1, <1>4, <1>5 DEF Delivering, Started
<1>10. Finished'
  BY <1>1, <1>5 DEF Finished, Spoken, InTools
<1>11. QED
  BY <1>4, <1>6, <1>7, <1>8, <1>9, <1>10

LEMMA StopCorrectsKeeps ==
    ASSUME IInv, StopCorrects
    PROVE  IInv'
<1> USE DEF IInv, Sound
<1>1. /\ pending' = pending /\ receipt' = receipt /\ ledger' = ledger
      /\ delivery' = delivery /\ open' = open /\ held' = held /\ abandoned' = abandoned
      /\ prompts < MaxPrompts /\ prompts' = prompts + 1
      /\ crashes' = crashes /\ run.step = "stop" /\ Go("top")
  BY DEF StopCorrects
<1>2. PICK t : t = <<Note>> /\ Say(t) /\ Checkpoint(With(conv, t), pending)
  BY DEF StopCorrects
<1>3. /\ Live' /\ Recorded' /\ saved' \in Saved /\ conv' \in Conversations
      /\ Carried(conv') = Carried(conv)
  <2>1. Quiet
    BY <1>1 DEF Flow, InTools
  <2>2. t \in Seq({Prompt, Note, Answer})
    BY <1>2
  <2>3. Fresh(t) /\ New(t) = {}
    BY <2>2, Words
  <2>4. QED
    BY <1>1, <1>2, <2>1, <2>3, SavesText
<1>4. /\ run' \in Runs /\ run'.step = "top"
      /\ run'.at = run.at /\ run'.refs = run.refs /\ run'.rewake = run.rewake
      /\ run'.corrections = run.corrections /\ run'.finished = run.finished
      /\ run'.corrected = run.corrected /\ run'.outcome = run.outcome
  BY <1>1, Goes DEF TypeOK, Steps
<1>5. prompts' \in 0..MaxPrompts /\ run.corrections <= prompts'
  BY <1>1, RunTypes, NativeLoopAssumption DEF TypeOK

<1>6. TypeOK'
  BY <1>1, <1>3, <1>4, <1>5 DEF TypeOK, Saved
<1>7. Flow'
  BY <1>1, <1>4 DEF Flow, Quiet, Compacts, InTools, Closing, None
<1>8. Effects'
  BY <1>1, <1>4 DEF Effects
<1>9. Delivering'
  BY <1>1, <1>3, <1>4 DEF Delivering, Started
<1>10. Finished'
  BY <1>1, <1>4 DEF Finished, Spoken, InTools
<1>11. QED
  BY <1>3, <1>6, <1>7, <1>8, <1>9, <1>10

LEMMA EnterContextKeeps ==
    ASSUME IInv, EnterContext
    PROVE  IInv'
<1> USE DEF IInv, Sound
<1>1. /\ pending' = pending /\ receipt' = receipt /\ ledger' = ledger
      /\ delivery' = delivery /\ open' = open /\ held' = held /\ abandoned' = abandoned
      /\ prompts' = prompts /\ crashes' = crashes /\ run.step = "delivering" /\ Go("entered")
  BY DEF EnterContext, bounds
<1>2. PICK t : /\ t = SetToSeq({Context(x) : x \in run.refs})
               /\ Say(t) /\ Checkpoint(With(conv, t), pending)
  BY DEF EnterContext
<1>3. /\ run.refs \subseteq Contexts /\ \A x \in run.refs : delivery[x] = "reserved" /\ x \notin Carried(conv)
      /\ IsFiniteSet(run.refs)
  <2>1. run.refs \subseteq Contexts /\ \A x \in run.refs : delivery[x] = "reserved" /\ x \notin Carried(conv)
    BY <1>1, RunTypes DEF Delivering, TypeOK
  <2>2. run.refs \subseteq Started
    BY <2>1 DEF Started
  <2>3. QED
    BY <2>1, <2>2, FS_Subset DEF Delivering
<1>4. Fresh(t) /\ New(t) = run.refs
  BY <1>2, <1>3, Texts DEF Fresh, New
<1>5. /\ Live' /\ Recorded' /\ saved' \in Saved /\ conv' \in Conversations
      /\ Carried(conv') = Carried(conv) \union run.refs
  <2>1. Quiet
    BY <1>1 DEF Flow, InTools
  <2>2. QED
    BY <1>1, <1>2, <1>4, <2>1, SavesText
<1>6. /\ run' \in Runs /\ run'.step = "entered"
      /\ run'.at = run.at /\ run'.refs = run.refs /\ run'.rewake = run.rewake
      /\ run'.corrections = run.corrections /\ run'.finished = run.finished
      /\ run'.corrected = run.corrected /\ run'.outcome = run.outcome
  BY <1>1, Goes DEF TypeOK, Steps

<1>7. TypeOK'
  BY <1>1, <1>5, <1>6 DEF TypeOK, Saved
<1>8. Flow'
  BY <1>1, <1>6 DEF Flow, Quiet, Compacts, InTools, Closing, None
<1>9. Effects'
  BY <1>1, <1>6 DEF Effects
<1>10. Delivering'
  BY <1>1, <1>5, <1>6, <1>3 DEF Delivering, Started
<1>11. Finished'
  BY <1>1, <1>6 DEF Finished, Spoken, InTools
<1>12. QED
  BY <1>5, <1>7, <1>8, <1>9, <1>10, <1>11

LEMMA PrepareStartupKeeps ==
    ASSUME IInv, PrepareStartup
    PROVE  IInv'
<1> USE DEF IInv, Sound
<1>1. /\ pending' = pending /\ receipt' = receipt /\ ledger' = ledger
      /\ open' = open /\ held' = held /\ abandoned' = abandoned
      /\ prompts' = prompts /\ crashes' = crashes /\ run.step = "preparing"
  BY DEF PrepareStartup, bounds
<1>2. /\ run.refs \subseteq Contexts /\ \A x \in run.refs : delivery[x] = "reserved" /\ x \notin Carried(conv)
      /\ run.refs \subseteq Started /\ IsFiniteSet(run.refs) /\ run \in Runs
  <2>1. run.refs \subseteq Contexts /\ \A x \in run.refs : delivery[x] = "reserved" /\ x \notin Carried(conv)
    BY <1>1, RunTypes DEF Delivering, TypeOK
  <2>2. run.refs \subseteq Started
    BY <2>1 DEF Started
  <2>3. QED
    BY <2>1, <2>2, FS_Subset DEF Delivering, TypeOK
<1>3. Quiet
  BY <1>1 DEF Flow, InTools
<1>4. ASSUME Say(SetToSeq({Context(x) : x \in run.refs})),
             Checkpoint(With(conv, SetToSeq({Context(x) : x \in run.refs})), pending),
             Go("requested"), delivery' = delivery
      PROVE  /\ Live' /\ Recorded' /\ saved' \in Saved /\ conv' \in Conversations
             /\ run' \in Runs /\ run'.step = "requested"
             /\ run'.at = run.at /\ run'.rewake = run.rewake
             /\ run'.corrections = run.corrections /\ run'.finished = run.finished
             /\ run'.corrected = run.corrected /\ run'.outcome = run.outcome
             /\ delivery' \in [Contexts -> {"none", "pending", "reserved", "delivered", "withheld"}]
             /\ IsFiniteSet(Started')
             /\ \A x \in Contexts : delivery'[x] \in {"none", "pending"} => x \notin Carried(conv')
             /\ \A x \in Contexts : delivery'[x] = "delivered" => x \in Carried(conv')
             /\ \A x \in run'.refs : delivery'[x] # "none"
             /\ run'.refs \subseteq Carried(conv') /\ Carried(conv) \subseteq Carried(conv')
  <2>1. PICK t : /\ t = SetToSeq({Context(x) : x \in run.refs})
                 /\ Say(t) /\ Checkpoint(With(conv, t), pending)
    BY <1>4
  <2>2. Fresh(t) /\ New(t) = run.refs
    BY <2>1, <1>2, Texts DEF Fresh, New
  <2>3. /\ Live' /\ Recorded' /\ saved' \in Saved /\ conv' \in Conversations
        /\ Carried(conv') = Carried(conv) \union run.refs
    BY <1>1, <1>3, <2>1, <2>2, SavesText
  <2>4. /\ run' \in Runs /\ run'.step = "requested" /\ run'.refs = run.refs
        /\ run'.at = run.at /\ run'.rewake = run.rewake
        /\ run'.corrections = run.corrections /\ run'.finished = run.finished
        /\ run'.corrected = run.corrected /\ run'.outcome = run.outcome
    BY <1>4, <1>2, Goes DEF Steps
  <2>5. /\ delivery' \in [Contexts -> {"none", "pending", "reserved", "delivered", "withheld"}]
        /\ IsFiniteSet(Started')
        /\ \A x \in Contexts : delivery'[x] \in {"none", "pending"} => x \notin Carried(conv')
        /\ \A x \in Contexts : delivery'[x] = "delivered" => x \in Carried(conv')
        /\ \A x \in run'.refs : delivery'[x] # "none"
        /\ run'.refs \subseteq Carried(conv') /\ Carried(conv) \subseteq Carried(conv')
    BY <1>4, <1>2, <2>3, <2>4 DEF Delivering, Started, TypeOK
  <2>6. QED
    BY <2>3, <2>4, <2>5
<1>5. ASSUME Deliver(run.refs, "withheld"),
             run' = [run EXCEPT !.step = "requested", !.refs = {}],
             conv' = conv, saved' = saved
      PROVE  /\ Live' /\ Recorded' /\ saved' \in Saved /\ conv' \in Conversations
             /\ run' \in Runs /\ run'.step = "requested"
             /\ run'.at = run.at /\ run'.rewake = run.rewake
             /\ run'.corrections = run.corrections /\ run'.finished = run.finished
             /\ run'.corrected = run.corrected /\ run'.outcome = run.outcome
             /\ delivery' \in [Contexts -> {"none", "pending", "reserved", "delivered", "withheld"}]
             /\ IsFiniteSet(Started')
             /\ \A x \in Contexts : delivery'[x] \in {"none", "pending"} => x \notin Carried(conv')
             /\ \A x \in Contexts : delivery'[x] = "delivered" => x \in Carried(conv')
             /\ \A x \in run'.refs : delivery'[x] # "none"
             /\ run'.refs \subseteq Carried(conv') /\ Carried(conv) \subseteq Carried(conv')
  <2>1. Live' /\ Recorded' /\ saved' \in Saved /\ conv' \in Conversations
    BY <1>1, <1>5 DEF Live, Recorded, TypeOK, Saved
  <2>2. /\ run' \in Runs /\ run'.step = "requested" /\ run'.refs = {}
        /\ run'.at = run.at /\ run'.rewake = run.rewake
        /\ run'.corrections = run.corrections /\ run'.finished = run.finished
        /\ run'.corrected = run.corrected /\ run'.outcome = run.outcome
    BY <1>5, <1>2 DEF Runs, Steps
  <2>3. /\ delivery' \in [Contexts -> {"none", "pending", "reserved", "delivered", "withheld"}]
        /\ \A y \in Contexts : delivery'[y] = IF y \in run.refs THEN "withheld" ELSE delivery[y]
        /\ IsFiniteSet(Started')
    BY <1>5, <1>2, Delivers DEF Delivering
  <2>4. /\ \A x \in Contexts : delivery'[x] \in {"none", "pending"} => x \notin Carried(conv')
        /\ \A x \in Contexts : delivery'[x] = "delivered" => x \in Carried(conv')
        /\ Carried(conv') = Carried(conv)
    BY <1>5, <2>3 DEF Delivering
  <2>5. QED
    BY <2>1, <2>2, <2>3, <2>4
<1>6. \/ /\ Say(SetToSeq({Context(x) : x \in run.refs}))
         /\ Checkpoint(With(conv, SetToSeq({Context(x) : x \in run.refs})), pending)
         /\ Go("requested") /\ delivery' = delivery
      \/ /\ Deliver(run.refs, "withheld")
         /\ run' = [run EXCEPT !.step = "requested", !.refs = {}]
         /\ conv' = conv /\ saved' = saved
  BY DEF PrepareStartup
<1>7. /\ Live' /\ Recorded' /\ saved' \in Saved /\ conv' \in Conversations
      /\ run' \in Runs /\ run'.step = "requested"
      /\ run'.at = run.at /\ run'.rewake = run.rewake
      /\ run'.corrections = run.corrections /\ run'.finished = run.finished
      /\ run'.corrected = run.corrected /\ run'.outcome = run.outcome
      /\ delivery' \in [Contexts -> {"none", "pending", "reserved", "delivered", "withheld"}]
      /\ IsFiniteSet(Started')
      /\ \A x \in Contexts : delivery'[x] \in {"none", "pending"} => x \notin Carried(conv')
      /\ \A x \in Contexts : delivery'[x] = "delivered" => x \in Carried(conv')
      /\ \A x \in run'.refs : delivery'[x] # "none"
      /\ run'.refs \subseteq Carried(conv') /\ Carried(conv) \subseteq Carried(conv')
  <2>1. CASE /\ Say(SetToSeq({Context(x) : x \in run.refs}))
             /\ Checkpoint(With(conv, SetToSeq({Context(x) : x \in run.refs})), pending)
             /\ Go("requested") /\ delivery' = delivery
    BY <1>4, <2>1
  <2>2. CASE /\ Deliver(run.refs, "withheld")
             /\ run' = [run EXCEPT !.step = "requested", !.refs = {}]
             /\ conv' = conv /\ saved' = saved
    BY <1>5, <2>2
  <2>3. QED
    BY <1>6, <2>1, <2>2
<1>8. Live' /\ Recorded'
  BY <1>7

<1>9. TypeOK'
  BY <1>1, <1>7 DEF TypeOK, Saved
<1>10. Flow'
  BY <1>1, <1>7 DEF Flow, Quiet, Compacts, InTools, Closing, None
<1>11. Effects'
  BY <1>1, <1>7 DEF Effects
<1>12. Delivering'
  BY <1>1, <1>7 DEF Delivering
<1>13. Finished'
  BY <1>1, <1>7 DEF Finished, Spoken, InTools
<1>14. QED
  BY <1>8, <1>9, <1>10, <1>11, <1>12, <1>13

-----------------------------------------------------------------------------
(* Calls, and their results.                                               *)
\* Calls that were abandoned need not be answered.
LEMMA Abandoned ==
    ASSUME NEW c, NEW p, NEW lost, NEW effects,
           Good(c, p, lost, effects), \A k \in DOMAIN p : p[k] \in lost
    PROVE  Good(c, <<>>, lost, effects)
BY DEF Good, Shape, Waiting, Closed, Range

\* What is said without a checkpoint, of calls that the checkpoint does not answer.
LEMMA Unsaved ==
    ASSUME Sound, Good(conv', pending', abandoned, ledger), Carried(conv') = Carried(conv),
           CallsIn(conv.entries) \subseteq CallsIn(conv'.entries), conv'.gone = conv.gone,
           \A k \in DOMAIN pending' : pending'[k] \notin Answered(saved.conv.entries),
           saved' = saved, ledger' = ledger, abandoned' = abandoned
    PROVE  Live' /\ Recorded'
<1>1. CallsIn(saved.conv.entries) \subseteq CallsIn(conv'.entries) \union conv'.gone
  BY DEF Sound, Recorded
<1>2. QED
  BY <1>1 DEF Sound, Live, Recorded

LEMMA RespondsKeeps ==
    ASSUME IInv, Responds
    PROVE  IInv'
<1> USE DEF IInv, Sound
<1>1. /\ receipt' = receipt /\ ledger' = ledger /\ saved' = saved
      /\ delivery' = delivery /\ open' = open \ {"request"} /\ held' = held /\ abandoned' = abandoned
      /\ prompts' = prompts /\ crashes' = crashes /\ run.step = "requested"
  BY DEF Responds, bounds
<1>2. PICK calls \in Responses :
         /\ Say(IF calls = <<>> THEN <<Answer>> ELSE [i \in DOMAIN calls |-> Call(calls[i])])
         /\ pending' = calls
         /\ run' = [run EXCEPT !.step = "answered", !.finished = (calls = <<>>),
                               !.corrected = FALSE]
  BY DEF Responds
<1>3. /\ calls \in Seq(Calls) /\ \A k \in DOMAIN calls : calls[k] \in NewCalls
      /\ \A k, l \in DOMAIN calls : calls[k] = calls[l] => k = l
  <2>1. CASE calls = <<>>
    BY <2>1
  <2>2. CASE calls \in {<<c>> : c \in NewCalls}
    <3>1. PICK a \in NewCalls : calls = <<a>>
      BY <2>2
    <3>2. a \in Calls
      BY DEF NewCalls
    <3>3. DOMAIN calls = {1} /\ calls[1] = a /\ calls \in Seq(Calls)
      BY <3>1, <3>2
    <3>4. QED
      BY <3>3
  <2>3. CASE calls \in {<<p[1], p[2]>> : p \in {q \in NewCalls \X NewCalls : q[1] # q[2]}}
    <3>1. PICK a \in NewCalls, b \in NewCalls : a # b /\ calls = <<a, b>>
      BY <2>3
    <3>2. a \in Calls /\ b \in Calls
      BY DEF NewCalls
    <3>3. DOMAIN calls = {1, 2} /\ calls[1] = a /\ calls[2] = b /\ calls \in Seq(Calls)
      BY <3>1, <3>2
    <3>4. QED
      BY <3>1, <3>3
  <2>4. QED
    BY <1>2, <2>1, <2>2, <2>3 DEF Responses
<1>4. /\ conv \in Conversations /\ Good(conv, pending, abandoned, ledger)
      /\ \A k \in DOMAIN pending : pending[k] \in abandoned
  BY <1>1 DEF TypeOK, Live, Flow, Quiet, InTools
<1>5. /\ Good(conv', calls, abandoned, ledger) /\ Carried(conv') = Carried(conv)
      /\ CallsIn(conv.entries) \subseteq CallsIn(conv'.entries) /\ conv'.gone = conv.gone
      /\ conv' \in Conversations
      /\ calls = <<>> => conv'.entries # <<>> /\ conv'.entries[Len(conv'.entries)] = Answer
  <2>1. CASE calls = <<>>
    <3>1. PICK t : t = <<Answer>> /\ conv' = With(conv, t)
      BY <1>2, <2>1 DEF Say
    <3>2. t \in Seq({Prompt, Note, Answer})
      BY <3>1
    <3>3. Fresh(t) /\ New(t) = {} /\ t \in Seq(Entries)
      BY <3>2, Words DEF Fresh
    <3>4. Good(conv, <<>>, abandoned, ledger)
      BY <1>4, Abandoned
    <3>5. /\ Good(With(conv, t), <<>>, abandoned, ledger)
          /\ Carried(With(conv, t)) = Carried(conv) \union New(t)
          /\ CallsIn(With(conv, t).entries) = CallsIn(conv.entries)
      BY <1>4, <3>3, <3>4, SayPlain DEF Fresh, New
    <3>6. /\ With(conv, t).gone = conv.gone /\ With(conv, t) \in Conversations
          /\ With(conv, t).entries = conv.entries \o t /\ conv.entries \in Seq(Entries)
      BY <1>4, <3>3, Said
    <3>7. conv'.entries # <<>> /\ conv'.entries[Len(conv'.entries)] = Answer
      <4>1. conv'.entries = conv.entries \o t
        BY <3>1, <3>6
      <4>2. Len(t) = 1 /\ t[1] = Answer /\ 1 \in DOMAIN t
        BY <3>1
      <4>3. Len(conv.entries \o t) = Len(conv.entries) + 1 /\ Len(conv.entries) \in Nat
        BY <3>3, <3>6, <4>2, Joined
      <4>4. (conv.entries \o t)[Len(conv.entries) + 1] = Answer
        BY <3>3, <3>6, <4>2, Joined
      <4>5. QED
        BY <4>1, <4>3, <4>4
    <3>8. QED
      BY <2>1, <3>1, <3>3, <3>5, <3>6, <3>7
  <2>2. CASE calls # <<>>
    <3>1. PICK t : t = [i \in DOMAIN calls |-> Call(calls[i])] /\ conv' = With(conv, t)
      BY <1>2, <2>2 DEF Say
    <3>2. DOMAIN t = 1..Len(calls) /\ \A i \in DOMAIN t : t[i] = Call(calls[i])
      BY <1>3, <3>1
    <3>3. t \in Seq(Entries) /\ Len(t) = Len(calls)
      <4>1. \A i \in 1..Len(calls) : t[i] \in Entries
        BY <1>3, <3>2, Made
      <4>2. Len(calls) \in Nat /\ t \in [1..Len(calls) -> Entries]
        BY <1>3, <3>1, <3>2, <4>1
      <4>3. QED
        BY <4>2
    <3>4. \A k \in DOMAIN calls : calls[k] \notin CallsIn(conv.entries) \union conv.gone
      BY <1>3 DEF NewCalls
    <3>5. /\ Good(With(conv, t), calls, abandoned, ledger)
          /\ Carried(With(conv, t)) = Carried(conv)
          /\ CallsIn(conv.entries) \subseteq CallsIn(With(conv, t).entries)
      BY <1>3, <1>4, <3>2, <3>3, <3>4, SayCalls
    <3>6. With(conv, t).gone = conv.gone /\ With(conv, t) \in Conversations
      BY <1>4, <3>3, Said
    <3>7. QED
      BY <2>2, <3>1, <3>5, <3>6
  <2>3. QED
    BY <2>1, <2>2
<1>6. \A k \in DOMAIN calls : calls[k] \notin Answered(saved.conv.entries)
  <2> SUFFICES ASSUME NEW k \in DOMAIN calls, calls[k] \in Answered(saved.conv.entries)
               PROVE  FALSE
    OBVIOUS
  <2>1. Ordered(saved.conv.entries)
    BY DEF Recorded, Good, Shape
  <2>2. calls[k] \in Calls
    BY <1>3 DEF NewCalls
  <2>3. calls[k] \in CallsIn(saved.conv.entries)
    BY <2>1, <2>2, Membership, Made DEF Ordered
  <2>4. QED
    BY <1>3, <2>3 DEF Recorded, NewCalls
<1>7. Live' /\ Recorded'
  BY <1>1, <1>2, <1>5, <1>6, Unsaved
<1>8. /\ run' \in Runs /\ run'.step = "answered"
      /\ run'.at = run.at /\ run'.refs = run.refs /\ run'.rewake = run.rewake
      /\ run'.corrections = run.corrections /\ (run'.finished => calls = <<>>)
      /\ run'.corrected = FALSE /\ run'.outcome = run.outcome
  <2>1. PICK b \in BOOLEAN : b = (calls = <<>>)
    OBVIOUS
  <2>2. run' = [run EXCEPT !.step = "answered", !.finished = b, !.corrected = FALSE]
    BY <1>2, <2>1
  <2>3. /\ run' \in Runs /\ run'.step = "answered"
        /\ run'.at = run.at /\ run'.refs = run.refs /\ run'.rewake = run.rewake
        /\ run'.corrections = run.corrections /\ run'.finished = b
        /\ run'.corrected = FALSE /\ run'.outcome = run.outcome
    BY <2>2 DEF TypeOK, Runs, Steps
  <2>4. QED
    BY <2>1, <2>3
<1>9. \A k \in DOMAIN pending' : ledger[pending'[k]] = "none"
  BY <1>2, <1>3 DEF NewCalls

<1>10. TypeOK'
  BY <1>1, <1>2, <1>3, <1>5, <1>8 DEF TypeOK
<1>11. Flow'
  BY <1>1, <1>8 DEF Flow, Quiet, Compacts, InTools, Closing, None
<1>12. Effects'
  BY <1>1, <1>8, <1>9 DEF Effects
<1>13. Delivering'
  BY <1>1, <1>5, <1>8 DEF Delivering, Started
<1>14. Finished'
  BY <1>1, <1>2, <1>5, <1>8 DEF Finished, Spoken, InTools
<1>15. QED
  BY <1>7, <1>10, <1>11, <1>12, <1>13, <1>14

\* The calls after the first.
LEMMA Rest ==
    ASSUME NEW p \in Seq(Calls), p # <<>>
    PROVE  /\ Head(p) = p[1] /\ p[1] \in Calls /\ 1 \in DOMAIN p
           /\ Tail(p) \in Seq(Calls) /\ Len(Tail(p)) + 1 = Len(p)
           /\ \A k \in DOMAIN Tail(p) : /\ k \in Nat \ {0} /\ k + 1 \in DOMAIN p
                                        /\ k + 1 > 1 /\ Tail(p)[k] = p[k + 1]
           /\ \A k \in DOMAIN p : k # 1 => k - 1 \in DOMAIN Tail(p) /\ Tail(p)[k - 1] = p[k]
<1>1. Len(p) \in Nat \ {0} /\ DOMAIN p = 1..Len(p)
  BY EmptySeq
<1>2. Head(p) = p[1] /\ Tail(p) \in Seq(Calls) /\ Len(Tail(p)) = Len(p) - 1
  BY HeadTailProperties
<1>3. \A k \in 1..Len(Tail(p)) : Tail(p)[k] = p[k + 1]
  BY HeadTailProperties
<1>4. DOMAIN Tail(p) = 1..(Len(p) - 1)
  BY <1>1, <1>2
<1>5. QED
  BY <1>1, <1>2, <1>3, <1>4

\* One result for the first of the pending calls.
LEMMA Answers ==
    ASSUME IInv, pending # <<>>, NEW how \in {"known", "skipped"},
           how = "known" <=> ledger[pending[1]] = "known",
           how = "skipped" => ledger[pending[1]] = "none",
           Say(<<Result(Head(pending), how)>>)
    PROVE  /\ conv' = With(conv, <<Result(Head(pending), how)>>) /\ conv' \in Conversations
           /\ Good(conv', Tail(pending), abandoned, ledger)
           /\ Carried(conv') = Carried(conv) /\ CallsIn(conv'.entries) = CallsIn(conv.entries)
           /\ conv'.gone = conv.gone
<1>1. conv \in Conversations /\ pending \in Seq(Calls) /\ Good(conv, pending, abandoned, ledger)
  BY DEF IInv, Sound, TypeOK, Live
<1>2. Head(pending) = pending[1] /\ pending[1] \in Calls
  BY <1>1, Rest
<1>3. PICK t : t = <<Result(Head(pending), how)>>
  OBVIOUS
<1>4. t \in Seq(Entries) /\ Len(t) = 1 /\ DOMAIN t = {1} /\ t[1] = Result(pending[1], how)
  BY <1>2, <1>3, Made
<1>5. Tells(t, pending, abandoned, ledger)
  BY <1>2, <1>4, Made DEF Tells
<1>6. Leaves(t, pending, Tail(pending)) /\ Tail(pending) \in Seq(Calls)
  <2>1. \A k \in DOMAIN Tail(pending) : k \in Nat /\ Tail(pending)[k] = pending[k + 1]
    BY <1>1, Rest
  <2>2. Len(Tail(pending)) + 1 = Len(pending) /\ Tail(pending) \in Seq(Calls) /\ Len(Tail(pending)) \in Nat
    BY <1>1, Rest
  <2>3. QED
    BY <1>4, <2>1, <2>2 DEF Leaves
<1>7. /\ Good(With(conv, t), Tail(pending), abandoned, ledger)
      /\ Carried(With(conv, t)) = Carried(conv)
      /\ CallsIn(With(conv, t).entries) = CallsIn(conv.entries)
  BY <1>1, <1>4, <1>5, <1>6, SayResults
<1>8. With(conv, t) \in Conversations /\ With(conv, t).gone = conv.gone
  BY <1>1, <1>4, Said
<1>9. conv' = With(conv, t)
  BY <1>3 DEF Say
<1>10. QED
  BY <1>3, <1>7, <1>8, <1>9

LEMMA SkipCallKeeps ==
    ASSUME IInv, SkipCall
    PROVE  IInv'
<1> USE DEF IInv, Sound
<1>1. /\ receipt' = receipt /\ ledger' = ledger /\ saved' = saved /\ run' = run
      /\ delivery' = delivery /\ open' = open /\ held' = held /\ abandoned' = abandoned
      /\ prompts' = prompts /\ crashes' = crashes /\ run.step = "tools" /\ pending # <<>>
      /\ pending' = Tail(pending) /\ pending \in Seq(Calls)
  BY DEF SkipCall, bounds, record, TypeOK
<1>2. /\ conv' \in Conversations /\ Good(conv', pending', abandoned, ledger)
      /\ Carried(conv') = Carried(conv) /\ CallsIn(conv'.entries) = CallsIn(conv.entries)
      /\ conv'.gone = conv.gone
  <2>1. ledger[pending[1]] = "none" /\ Say(<<Result(Head(pending), "skipped")>>)
    BY <1>1, Rest DEF SkipCall, Effects
  <2>2. QED
    BY <1>1, <2>1, Answers
<1>3. /\ pending' \in Seq(Calls)
      /\ \A k \in DOMAIN pending' : k + 1 \in DOMAIN pending /\ pending'[k] = pending[k + 1]
  BY <1>1, Rest
<1>4. Live' /\ Recorded'
  <2>1. \A k \in DOMAIN pending' : pending'[k] \notin Answered(saved.conv.entries)
    BY <1>3 DEF Recorded
  <2>2. QED
    BY <1>1, <1>2, <2>1, Unsaved

<1>5. TypeOK'
  BY <1>1, <1>2, <1>3 DEF TypeOK
<1>6. Flow'
  BY <1>1 DEF Flow, Quiet, Compacts, InTools, Closing, None
<1>7. Effects'
  BY <1>1, <1>3 DEF Effects
<1>8. Delivering'
  BY <1>1, <1>2 DEF Delivering, Started
<1>9. Finished'
  BY <1>1 DEF Finished, Spoken, InTools
<1>10. QED
  BY <1>4, <1>5, <1>6, <1>7, <1>8, <1>9

LEMMA ToolReturnsKeeps ==
    ASSUME IInv, ToolReturns
    PROVE  IInv'
<1> USE DEF IInv, Sound
<1>1. /\ ledger' = ledger /\ receipt' = None /\ Go("released")
      /\ delivery' = delivery /\ open' = open /\ held' = held /\ abandoned' = abandoned
      /\ prompts' = prompts /\ crashes' = crashes /\ run.step = "hooks" /\ pending # <<>>
      /\ pending' = Tail(pending) /\ pending \in Seq(Calls)
  BY DEF ToolReturns, bounds, record, TypeOK
<1>2. PICK t : /\ t = <<Result(Head(pending), "known")>> /\ Say(t)
               /\ Checkpoint(With(conv, t), Tail(pending))
  BY DEF ToolReturns
<1>3. /\ conv' = With(conv, t) /\ conv' \in Conversations /\ Good(conv', Tail(pending), abandoned, ledger)
      /\ Carried(conv') = Carried(conv)
  <2>1. pending[1] \in Calls /\ pending[1] # None
    BY <1>1, Rest, NativeLoopAssumption
  <2>2. ledger[pending[1]] = "known"
    BY <1>1, <2>1 DEF Effects
  <2>3. Say(<<Result(Head(pending), "known")>>)
    BY <1>2
  <2>4. QED
    BY <1>1, <1>2, <2>2, <2>3, Answers
<1>4. /\ Tail(pending) \in Seq(Calls)
      /\ \A k \in DOMAIN Tail(pending) : k + 1 \in DOMAIN pending /\ k + 1 > 1
                                         /\ Tail(pending)[k] = pending[k + 1]
  BY <1>1, Rest
<1>5. \A k \in DOMAIN Tail(pending) : ledger[Tail(pending)[k]] = "none"
  BY <1>1, <1>4 DEF Effects
<1>6. Live' /\ Recorded' /\ saved' \in Saved
  BY <1>1, <1>2, <1>3, <1>4, <1>5, Checkpoints
<1>7. /\ run' \in Runs /\ run'.step = "released"
      /\ run'.at = run.at /\ run'.refs = run.refs /\ run'.rewake = run.rewake
      /\ run'.corrections = run.corrections /\ run'.finished = run.finished
      /\ run'.corrected = run.corrected /\ run'.outcome = run.outcome
  BY <1>1, Goes DEF TypeOK, Steps

<1>8. TypeOK'
  BY <1>1, <1>6, <1>3, <1>4, <1>7 DEF TypeOK, Saved
<1>9. Flow'
  BY <1>1, <1>7 DEF Flow, Quiet, Compacts, InTools, Closing, None
<1>10. Effects'
  BY <1>1, <1>5, <1>7 DEF Effects
<1>11. Delivering'
  BY <1>1, <1>3, <1>7 DEF Delivering, Started
<1>12. Finished'
  BY <1>1, <1>7 DEF Finished, Spoken, InTools
<1>13. QED
  BY <1>6, <1>8, <1>9, <1>10, <1>11, <1>12

\* Results for all pending calls.
LEMMA AnswersAll ==
    ASSUME IInv, NEW t \in Seq(Entries), Len(t) = Len(pending),
           Tells(t, pending, abandoned, ledger)
    PROVE  /\ With(conv, t) \in Conversations /\ Good(With(conv, t), <<>>, abandoned, ledger)
           /\ Carried(With(conv, t)) = Carried(conv)
           /\ CallsIn(With(conv, t).entries) = CallsIn(conv.entries)
           /\ With(conv, t).gone = conv.gone
<1>1. conv \in Conversations /\ pending \in Seq(Calls) /\ Good(conv, pending, abandoned, ledger)
  BY DEF IInv, Sound, TypeOK, Live
<1>2. <<>> \in Seq(Calls) /\ Leaves(t, pending, <<>>)
  BY <1>1 DEF Leaves
<1>3. QED
  BY <1>1, <1>2, SayResults, Said

LEMMA ResultsMade ==
    ASSUME NEW p \in Seq(Calls), NEW how \in {"known", "stopped", "skipped", "interrupted"}
    PROVE  /\ Results(p, how) \in Seq(Entries) /\ Len(Results(p, how)) = Len(p)
           /\ DOMAIN Results(p, how) = DOMAIN p
           /\ \A i \in DOMAIN p : /\ Results(p, how)[i].is = "result"
                                  /\ Results(p, how)[i].of = p[i] /\ Results(p, how)[i].how = how
<1>1. Len(p) \in Nat /\ DOMAIN p = 1..Len(p) /\ \A i \in DOMAIN p : p[i] \in Calls
  OBVIOUS
<1>2. Results(p, how) \in [1..Len(p) -> Entries]
  BY <1>1, Made DEF Results
<1>3. \A i \in DOMAIN p : Results(p, how)[i] = Result(p[i], how)
  BY DEF Results
<1>4. QED
  BY <1>1, <1>2, <1>3, Made

LEMMA SupersedeKeeps ==
    ASSUME IInv, Supersede
    PROVE  IInv'
<1> USE DEF IInv, Sound
<1>1. /\ receipt' = receipt /\ ledger' = ledger /\ saved' = saved /\ Go("end")
      /\ delivery' = delivery /\ open' = open /\ held' = held /\ abandoned' = abandoned
      /\ prompts' = prompts /\ crashes' = crashes /\ run.step = "released"
      /\ pending' = <<>> /\ pending \in Seq(Calls)
  BY DEF Supersede, bounds, record, TypeOK
<1>2. PICK t : t = Results(pending, "skipped") /\ conv' = With(conv, t)
  BY DEF Supersede, Say
<1>3. /\ conv' \in Conversations /\ Good(conv', pending', abandoned, ledger)
      /\ Carried(conv') = Carried(conv) /\ CallsIn(conv'.entries) = CallsIn(conv.entries)
      /\ conv'.gone = conv.gone
  <2>1. t \in Seq(Entries) /\ Len(t) = Len(pending) /\ DOMAIN t = DOMAIN pending
        /\ \A i \in DOMAIN pending : t[i].is = "result" /\ t[i].of = pending[i] /\ t[i].how = "skipped"
    BY <1>1, <1>2, ResultsMade
  <2>2. Tells(t, pending, abandoned, ledger)
    BY <1>1, <2>1 DEF Tells, Effects
  <2>3. QED
    BY <1>1, <1>2, <2>1, <2>2, AnswersAll
<1>4. Live' /\ Recorded'
  BY <1>1, <1>3, Unsaved
<1>5. /\ run' \in Runs /\ run'.step = "end"
      /\ run'.at = run.at /\ run'.refs = run.refs /\ run'.rewake = run.rewake
      /\ run'.corrections = run.corrections /\ run'.finished = run.finished
      /\ run'.corrected = run.corrected /\ run'.outcome = run.outcome
  BY <1>1, Goes DEF TypeOK, Steps

<1>6. TypeOK'
  BY <1>1, <1>3, <1>5 DEF TypeOK
<1>7. Flow'
  BY <1>1, <1>5 DEF Flow, Quiet, Compacts, InTools, Closing, None
<1>8. Effects'
  BY <1>1, <1>5 DEF Effects
<1>9. Delivering'
  BY <1>1, <1>3, <1>5 DEF Delivering, Started
<1>10. Finished'
  BY <1>1, <1>5, RunTypes DEF Finished, Spoken, InTools, TypeOK
<1>11. QED
  BY <1>4, <1>6, <1>7, <1>8, <1>9, <1>10

\* One entry, and then those of r.
LEMMA Before ==
    ASSUME NEW e \in Entries, NEW r \in Seq(Entries)
    PROVE  /\ <<e>> \o r \in Seq(Entries) /\ Len(<<e>> \o r) = 1 + Len(r)
           /\ \A i \in DOMAIN (<<e>> \o r) :
                \/ i = 1 /\ (<<e>> \o r)[i] = e
                \/ i > 1 /\ i - 1 \in DOMAIN r /\ (<<e>> \o r)[i] = r[i - 1]
           /\ \A i \in DOMAIN (<<e>> \o r) : i \in Nat
<1>1. PICK h : h = <<e>>
  OBVIOUS
<1>2. h \in Seq(Entries) /\ Len(h) = 1 /\ h[1] = e
  BY <1>1
<1>3. /\ h \o r \in Seq(Entries) /\ Len(h \o r) = Len(h) + Len(r)
      /\ \A i \in 1..(Len(h) + Len(r)) :
           (h \o r)[i] = IF i <= Len(h) THEN h[i] ELSE r[i - Len(h)]
  BY <1>2, ConcatProperties
<1>4. DOMAIN (h \o r) = 1..(1 + Len(r)) /\ DOMAIN r = 1..Len(r) /\ Len(r) \in Nat
  BY <1>2, <1>3
<1>5. \A i \in DOMAIN (h \o r) :
        /\ i \in Nat
        /\ \/ i = 1 /\ (h \o r)[i] = e
           \/ i > 1 /\ i - 1 \in DOMAIN r /\ (h \o r)[i] = r[i - 1]
  <2> SUFFICES ASSUME NEW i \in 1..(1 + Len(r))
               PROVE  /\ i \in Nat
                      /\ \/ i = 1 /\ (h \o r)[i] = e
                         \/ i > 1 /\ i - 1 \in DOMAIN r /\ (h \o r)[i] = r[i - 1]
    BY <1>4
  <2>1. (h \o r)[i] = IF i <= 1 THEN h[i] ELSE r[i - 1]
    BY <1>2, <1>3
  <2>2. QED
    BY <1>2, <1>4, <2>1
<1>6. QED
  BY <1>1, <1>2, <1>3, <1>5

\* The end of a turn answers what is pending as the record does.
LEMMA Settles ==
    ASSUME IInv
    PROVE  /\ Settled \in Conversations /\ Good(Settled, <<>>, abandoned, ledger)
           /\ Carried(Settled) = Carried(conv)
           /\ CallsIn(Settled.entries) = CallsIn(conv.entries) /\ Settled.gone = conv.gone
           /\ pending = <<>> => Settled = conv
<1>1. /\ Told /\ pending \in Seq(Calls) /\ conv \in Conversations
  BY ReceiptHeld DEF IInv, TypeOK
<1>2. CASE pending # <<>> /\ receipt = Head(pending)
  <2>1. PICK r : r = Results(Tail(pending), "stopped")
    OBVIOUS
  <2>2. PICK t : t = <<Result(receipt, "known")>> \o r
    OBVIOUS
  <2>3. Settled = With(conv, t)
    BY <1>2, <2>1, <2>2 DEF Settled
  <2>4. /\ Head(pending) = pending[1] /\ pending[1] \in Calls /\ 1 \in DOMAIN pending
        /\ Tail(pending) \in Seq(Calls) /\ Len(Tail(pending)) + 1 = Len(pending)
        /\ \A k \in DOMAIN Tail(pending) : k + 1 \in DOMAIN pending /\ Tail(pending)[k] = pending[k + 1]
    BY <1>1, <1>2, Rest
  <2>5. /\ r \in Seq(Entries) /\ Len(r) = Len(Tail(pending)) /\ DOMAIN r = DOMAIN Tail(pending)
        /\ \A i \in DOMAIN r : /\ r[i].is = "result"
                               /\ r[i].of = Tail(pending)[i] /\ r[i].how = "stopped"
    <3>1. PICK q \in Seq(Calls) : q = Tail(pending)
      BY <2>4
    <3>2. r = Results(q, "stopped")
      BY <2>1, <3>1
    <3>3. /\ r \in Seq(Entries) /\ Len(r) = Len(q) /\ DOMAIN r = DOMAIN q
          /\ \A i \in DOMAIN q : /\ r[i].is = "result"
                                 /\ r[i].of = q[i] /\ r[i].how = "stopped"
      BY <3>2, ResultsMade
    <3>4. QED
      BY <3>1, <3>3
  <2>6. /\ Result(pending[1], "known").is = "result" /\ Result(pending[1], "known").of = pending[1]
        /\ Result(pending[1], "known").how = "known"
    BY <2>4, Made
  <2>7. /\ t \in Seq(Entries) /\ Len(t) = 1 + Len(r)
        /\ \A i \in DOMAIN t : \/ i = 1 /\ t[i] = Result(pending[1], "known")
                               \/ i > 1 /\ i - 1 \in DOMAIN r /\ t[i] = r[i - 1]
        /\ \A i \in DOMAIN t : i \in Nat
    <3>1. PICK e \in Entries : e = Result(receipt, "known") /\ e = Result(pending[1], "known")
      BY <1>2, <2>4, Made
    <3>2. t = <<e>> \o r /\ r \in Seq(Entries)
      BY <2>2, <2>5, <3>1
    <3>3. QED
      BY <3>1, <3>2, Before
  <2>8. Tells(t, pending, abandoned, ledger)
    <3> SUFFICES ASSUME NEW i \in DOMAIN t
                 PROVE  /\ t[i].is = "result" /\ t[i].of = pending[i]
                        /\ pending[i] \notin abandoned =>
                             /\ t[i].how = "known" <=> ledger[pending[i]] = "known"
                             /\ t[i].how = "skipped" => ledger[pending[i]] = "none"
      BY DEF Tells
    <3>1. CASE i = 1 /\ t[i] = Result(pending[1], "known")
      BY <1>1, <1>2, <2>4, <2>6, <3>1 DEF Told
    <3>2. CASE i > 1 /\ i - 1 \in DOMAIN r /\ t[i] = r[i - 1]
      <4>1. i \in DOMAIN pending /\ Tail(pending)[i - 1] = pending[i] /\ i # 1
        BY <2>4, <2>5, <2>7, <3>2
      <4>2. QED
        BY <1>1, <2>5, <3>2, <4>1 DEF Told
    <3>3. QED
      BY <2>7, <3>1, <3>2
  <2>9. Len(t) = Len(pending)
    BY <1>1, <2>4, <2>5, <2>7
  <2>10. QED
    BY <1>2, <2>3, <2>7, <2>8, <2>9, AnswersAll
<1>3. CASE ~(pending # <<>> /\ receipt = Head(pending))
  <2>1. PICK t : t = Results(pending, "stopped")
    OBVIOUS
  <2>2. Settled = With(conv, t)
    BY <1>3, <2>1 DEF Settled
  <2>3. /\ t \in Seq(Entries) /\ Len(t) = Len(pending) /\ DOMAIN t = DOMAIN pending
        /\ \A i \in DOMAIN pending : t[i].is = "result" /\ t[i].of = pending[i] /\ t[i].how = "stopped"
    BY <1>1, <2>1, ResultsMade
  <2>4. \A k \in DOMAIN pending : ~(k = 1 /\ receipt = pending[1])
    BY <1>1, <1>3, Rest
  <2>5. Tells(t, pending, abandoned, ledger)
    BY <1>1, <2>3, <2>4 DEF Tells, Told
  <2>6. pending = <<>> => Settled = conv
    <3>1. ASSUME pending = <<>>
          PROVE  t = <<>>
      BY <2>3, <3>1, EmptySeq
    <3>2. PICK e \in Seq(Entries), g \in SUBSET (Calls \union Contexts) : conv = [entries |-> e, gone |-> g]
      BY <1>1 DEF Conversations
    <3>3. e \o <<>> = e
      BY <3>2, ConcatEmptySeq
    <3>4. With(conv, <<>>) = [conv EXCEPT !.entries = e \o <<>>]
      BY <3>2 DEF With
    <3>5. With(conv, <<>>) = conv
      BY <3>2, <3>3, <3>4
    <3>6. QED
      BY <2>2, <3>1, <3>5
  <2>7. QED
    BY <2>2, <2>3, <2>5, <2>6, AnswersAll
<1>4. QED
  BY <1>2, <1>3

LEMMA FinishNativeTurnKeeps ==
    ASSUME IInv, FinishNativeTurn
    PROVE  IInv'
<1> USE DEF IInv, Sound
<1>1. /\ receipt' = None /\ ledger' = ledger /\ saved' = saved /\ conv' = Settled
      /\ delivery' = delivery /\ open' \subseteq open /\ held' = held /\ abandoned' = abandoned
      /\ prompts' = prompts /\ crashes' = crashes /\ run.step = "ending" /\ pending' = <<>>
  BY DEF FinishNativeTurn, bounds, Settle
<1>2. Live' /\ Recorded'
  BY <1>1, Settles, Unsaved
<1>3. conv' \in Conversations /\ Carried(conv') = Carried(conv)
  BY <1>1, Settles
<1>4. PICK step \in {"saving", "closing"} : Go(step)
  BY DEF FinishNativeTurn
<1>5. /\ run' \in Runs /\ run'.step \in {"saving", "closing"}
      /\ run'.at = run.at /\ run'.refs = run.refs /\ run'.rewake = run.rewake
      /\ run'.corrections = run.corrections /\ run'.finished = run.finished
      /\ run'.corrected = run.corrected /\ run'.outcome = run.outcome
  BY <1>4, Goes DEF TypeOK, Steps

<1>6. TypeOK'
  BY <1>1, <1>3, <1>5 DEF TypeOK
<1>7. Flow'
  BY <1>1, <1>5 DEF Flow, Quiet, Compacts, InTools, Closing, None
<1>8. Effects'
  BY <1>1, <1>5 DEF Effects
<1>9. Delivering'
  BY <1>1, <1>3, <1>5 DEF Delivering, Started
<1>10. Finished'
  BY <1>1, <1>5 DEF Finished, Spoken, InTools
<1>11. QED
  BY <1>2, <1>6, <1>7, <1>8, <1>9, <1>10

LEMMA SettleDroppedKeeps ==
    ASSUME IInv, SettleDropped
    PROVE  IInv'
<1> USE DEF IInv, Sound
<1>1. /\ receipt' = None /\ ledger' = ledger /\ conv' = Settled /\ pending' = <<>>
      /\ Checkpoint(Settled, <<>>) /\ open' = open /\ abandoned' = abandoned
      /\ prompts' = prompts /\ crashes' = crashes /\ held' = (held \/ Unresolved)
  BY DEF SettleDropped, bounds, Settle
<1>2. /\ Live' /\ Recorded' /\ saved' \in Saved
  <2>1. <<>> \in Seq(Calls) /\ \A k \in DOMAIN <<>> : ledger[<<>>[k]] = "none" \/ <<>>[k] \in abandoned
    OBVIOUS
  <2>2. QED
    BY <1>1, <2>1, Settles, Checkpoints
<1>3. conv' \in Conversations /\ Carried(conv') = Carried(conv)
  BY <1>1, Settles
<1>4. PICK xs : /\ xs \subseteq Withheld /\ Deliver(xs, "withheld")
  BY DEF SettleDropped
<1>5. xs \subseteq Started /\ xs \subseteq Contexts
  BY <1>4, NoneStarted DEF Withheld
<1>6. /\ delivery' \in [Contexts -> {"none", "pending", "reserved", "delivered", "withheld"}]
      /\ \A y \in Contexts : delivery'[y] = IF y \in xs THEN "withheld" ELSE delivery[y]
      /\ IsFiniteSet(Started')
  BY <1>4, <1>5, Delivers DEF Delivering
<1>7. /\ run' = Idle /\ run'.step = "idle" /\ run'.at = None /\ run'.refs = {} /\ run'.rewake = {}
      /\ run'.corrections = 0 /\ run'.finished = FALSE /\ run'.corrected = FALSE /\ run'.outcome = None
      /\ run' \in Runs
  BY IdleRun DEF SettleDropped
<1>8. held' \in BOOLEAN
  BY <1>1 DEF TypeOK, Unresolved

<1>9. TypeOK'
  BY <1>1, <1>2, <1>3, <1>6, <1>7, <1>8, NativeLoopAssumption DEF TypeOK, Saved
<1>10. Flow'
  BY <1>1, <1>7 DEF Flow, Quiet, Compacts, InTools, Closing, None
<1>11. Effects'
  BY <1>1, <1>7 DEF Effects
<1>12. Delivering'
  BY <1>3, <1>6, <1>7 DEF Delivering
<1>13. Finished'
  BY <1>7 DEF Finished, InTools
<1>14. QED
  BY <1>2, <1>9, <1>10, <1>11, <1>12, <1>13

-----------------------------------------------------------------------------
(* Steps of the record.                                                    *)
\* The effect of the first pending call, which nobody has answered yet.
LEMMA Changes ==
    ASSUME IInv, pending # <<>>, NEW state,
           ledger' = [ledger EXCEPT ![Head(pending)] = state],
           conv' = conv, pending' = pending, saved' = saved, abandoned' = abandoned
    PROVE  /\ Live' /\ Recorded'
           /\ Head(pending) = pending[1] /\ pending[1] \in Calls
           /\ ledger'[pending[1]] = state
           /\ \A k \in DOMAIN pending : k > 1 => ledger'[pending[k]] = ledger[pending[k]]
<1>1. pending \in Seq(Calls) /\ ledger \in [Calls -> {"none", "begun", "known", "lost"}]
  BY DEF IInv, TypeOK
<1>2. Head(pending) = pending[1] /\ pending[1] \in Calls /\ 1 \in DOMAIN pending
  BY <1>1, Rest
<1>3. ledger'[pending[1]] = state /\ \A x \in Calls : x # pending[1] => ledger'[x] = ledger[x]
  BY <1>1, <1>2
<1>4. \A k \in DOMAIN pending : pending[k] \in Calls /\ (k > 1 => pending[k] # pending[1])
  BY <1>1, <1>2 DEF IInv, Sound, Live, Good, Shape, Waiting
<1>5. /\ pending[1] \notin Answered(conv.entries) /\ pending[1] \notin Answered(saved.conv.entries)
  BY <1>2 DEF IInv, Sound, Live, Recorded, Good, Shape, Waiting
<1>6. /\ conv.entries \in Seq(Entries) /\ saved.conv.entries \in Seq(Entries)
      /\ Exact(conv.entries, abandoned, ledger) /\ Exact(saved.conv.entries, abandoned, ledger)
  BY DEF IInv, Sound, TypeOK, Live, Recorded, Good, Conversations
<1>7. ASSUME NEW s \in Seq(Entries), Exact(s, abandoned, ledger), pending[1] \notin Answered(s)
      PROVE  Exact(s, abandoned, ledger')
  <2> SUFFICES ASSUME NEW i \in DOMAIN s, s[i].is = "result", s[i].of \notin abandoned
               PROVE  /\ s[i].how = "known" <=> ledger'[s[i].of] = "known"
                      /\ s[i].how = "skipped" => ledger'[s[i].of] = "none"
    BY DEF Exact
  <2>1. s[i].of \in Calls
    BY EntryKinds
  <2>2. s[i].of # pending[1]
    BY <1>7, Membership
  <2>3. QED
    BY <1>3, <1>7, <2>1, <2>2 DEF Exact
<1>8. Exact(conv.entries, abandoned, ledger') /\ Exact(saved.conv.entries, abandoned, ledger')
  BY <1>5, <1>6, <1>7
<1>9. Live' /\ Recorded'
  BY <1>8 DEF IInv, Sound, Live, Recorded, Good
<1>10. QED
  BY <1>2, <1>3, <1>4, <1>9

LEMMA BeginToolKeeps ==
    ASSUME IInv, BeginTool
    PROVE  IInv'
<1> USE DEF IInv, Sound
<1>1. /\ conv' = conv /\ pending' = pending /\ saved' = saved /\ abandoned' = abandoned
      /\ ledger' = [ledger EXCEPT ![Head(pending)] = "begun"] /\ receipt' = None
      /\ delivery' = delivery /\ open' = open /\ held' = held
      /\ prompts' = prompts /\ crashes' = crashes /\ run.step = "tools" /\ pending # <<>>
      /\ Go("executing")
  BY DEF BeginTool, bounds
<1>2. /\ Head(pending) = pending[1] /\ pending[1] \in Calls /\ ledger'[pending[1]] = "begun"
      /\ \A k \in DOMAIN pending : k > 1 => ledger'[pending[k]] = "none"
  BY <1>1, Changes DEF Effects
<1>3. Live' /\ Recorded'
  BY <1>1, Changes
<1>4. ledger' \in [Calls -> {"none", "begun", "known", "lost"}]
  BY <1>1 DEF TypeOK
<1>5. /\ run' \in Runs /\ run'.step = "executing"
      /\ run'.at = run.at /\ run'.refs = run.refs /\ run'.rewake = run.rewake
      /\ run'.corrections = run.corrections /\ run'.finished = run.finished
      /\ run'.corrected = run.corrected /\ run'.outcome = run.outcome
  BY <1>1, Goes DEF TypeOK, Steps

<1>6. TypeOK'
  BY <1>1, <1>2, <1>4, <1>5 DEF TypeOK
<1>7. Flow'
  BY <1>1, <1>5 DEF Flow, Quiet, Compacts, InTools, Closing, None
<1>8. Effects'
  BY <1>1, <1>2, <1>5 DEF Effects
<1>9. Delivering'
  BY <1>1, <1>5 DEF Delivering, Started
<1>10. Finished'
  BY <1>1, <1>5, RunTypes DEF Finished, Spoken, InTools, TypeOK
<1>11. QED
  BY <1>3, <1>6, <1>7, <1>8, <1>9, <1>10

LEMMA ToolEndsKeeps ==
    ASSUME IInv, ToolEnds
    PROVE  IInv'
<1> USE DEF IInv, Sound
<1>1. /\ conv' = conv /\ pending' = pending /\ saved' = saved /\ abandoned' = abandoned
      /\ ledger' = [ledger EXCEPT ![Head(pending)] = "known"] /\ receipt' = Head(pending)
      /\ delivery' = delivery /\ open' = open /\ held' = held
      /\ prompts' = prompts /\ crashes' = crashes /\ run.step = "executing" /\ pending # <<>>
      /\ Go("hooks")
  BY DEF ToolEnds, bounds, Effects
<1>2. /\ Head(pending) = pending[1] /\ pending[1] \in Calls /\ ledger'[pending[1]] = "known"
      /\ \A k \in DOMAIN pending : k > 1 => ledger'[pending[k]] = "none"
  BY <1>1, Changes DEF Effects
<1>3. Live' /\ Recorded'
  BY <1>1, Changes
<1>4. ledger' \in [Calls -> {"none", "begun", "known", "lost"}]
  BY <1>1 DEF TypeOK
<1>5. /\ run' \in Runs /\ run'.step = "hooks"
      /\ run'.at = run.at /\ run'.refs = run.refs /\ run'.rewake = run.rewake
      /\ run'.corrections = run.corrections /\ run'.finished = run.finished
      /\ run'.corrected = run.corrected /\ run'.outcome = run.outcome
  BY <1>1, Goes DEF TypeOK, Steps

<1>6. TypeOK'
  BY <1>1, <1>2, <1>4, <1>5 DEF TypeOK
<1>7. Flow'
  BY <1>1, <1>5 DEF Flow, Quiet, Compacts, InTools, Closing, None
<1>8. Effects'
  BY <1>1, <1>2, <1>5 DEF Effects
<1>9. Delivering'
  BY <1>1, <1>5 DEF Delivering, Started
<1>10. Finished'
  BY <1>1, <1>5, RunTypes DEF Finished, Spoken, InTools, TypeOK
<1>11. QED
  BY <1>3, <1>6, <1>7, <1>8, <1>9, <1>10

LEMMA ReconcileKeeps ==
    ASSUME IInv, Reconcile
    PROVE  IInv'
<1> USE DEF IInv, Sound
<1>1. /\ conv' = conv /\ pending' = pending /\ receipt' = receipt /\ run' = run
      /\ ledger' = [c \in Calls |-> IF ledger[c] = "begun" THEN "lost" ELSE ledger[c]]
      /\ abandoned' = abandoned \union Range(pending) /\ Checkpoint(conv, pending)
      /\ delivery' = delivery /\ open' = {} /\ held' = FALSE
      /\ prompts' = prompts /\ crashes' = crashes /\ run.step = "idle"
  BY DEF Reconcile, conversation
<1>2. /\ pending \in Seq(Calls) /\ conv \in Conversations /\ conv.entries \in Seq(Entries)
      /\ ledger \in [Calls -> {"none", "begun", "known", "lost"}] /\ abandoned \subseteq Calls
      /\ Good(conv, pending, abandoned, ledger)
  BY DEF TypeOK, Live, Conversations
<1>3. /\ \A k \in DOMAIN pending : pending[k] \in abandoned'
      /\ abandoned \subseteq abandoned' /\ abandoned' \subseteq Calls
  BY <1>1, <1>2 DEF Range
<1>4. /\ ledger' \in [Calls -> {"none", "begun", "known", "lost"}]
      /\ \A c \in Calls : (ledger'[c] = "known" <=> ledger[c] = "known")
                          /\ (ledger'[c] = "none" <=> ledger[c] = "none")
  BY <1>1, <1>2
<1>5. Good(conv, pending, abandoned', ledger')
  <2>1. Exact(conv.entries, abandoned', ledger')
    <3> SUFFICES ASSUME NEW i \in DOMAIN conv.entries, conv.entries[i].is = "result",
                        conv.entries[i].of \notin abandoned'
                 PROVE  /\ conv.entries[i].how = "known" <=> ledger'[conv.entries[i].of] = "known"
                        /\ conv.entries[i].how = "skipped" => ledger'[conv.entries[i].of] = "none"
      BY DEF Exact
    <3>1. conv.entries[i].of \in Calls
      BY <1>2, EntryKinds
    <3>2. QED
      BY <1>2, <1>3, <1>4, <3>1 DEF Good, Exact
  <2>2. Closed(conv.entries, pending, abandoned')
    BY <1>2, <1>3 DEF Good, Shape, Closed
  <2>3. QED
    BY <1>2, <2>1, <2>2 DEF Good, Shape
<1>6. Live' /\ Recorded' /\ saved' \in Saved
  <2>1. PICK cursor : cursor = {x \in Calls : ledger[x] # "none"}
    OBVIOUS
  <2>2. saved' = [conv |-> conv, pending |-> pending, cursor |-> cursor]
    BY <1>1, <2>1 DEF Checkpoint
  <2>3. saved'.conv = conv /\ saved'.pending = pending /\ saved'.cursor = cursor
    BY <2>2
  <2>4. saved' \in Saved
    BY <1>2, <2>1, <2>2 DEF Saved
  <2>5. \A k \in DOMAIN pending : pending[k] \notin Answered(conv.entries)
    BY <1>2 DEF Good, Shape, Waiting
  <2>6. Live'
    BY <1>1, <1>5 DEF Live
  <2>7. Recorded'
    BY <1>1, <1>3, <1>5, <2>3, <2>5 DEF Recorded
  <2>8. QED
    BY <2>4, <2>6, <2>7
<1>7. receipt # None => receipt \in Calls
  BY DEF TypeOK

<1>8. TypeOK'
  BY <1>1, <1>6, <1>2, <1>3, <1>4 DEF TypeOK, Saved
<1>9. Flow'
  BY <1>1, <1>3 DEF Flow, Quiet, Compacts, InTools, Closing, None
<1>10. Effects'
  BY <1>1, <1>3, <1>4, <1>7 DEF Effects
<1>11. Delivering'
  BY <1>1 DEF Delivering, Started
<1>12. Finished'
  BY <1>1 DEF Finished, Spoken, InTools
<1>13. QED
  BY <1>6, <1>8, <1>9, <1>10, <1>11, <1>12

LEMMA ApplySummaryKeeps ==
    ASSUME IInv, ApplySummary
    PROVE  IInv'
<1> USE DEF IInv, Sound
<1>1. /\ pending' = pending /\ receipt' = receipt /\ ledger' = ledger /\ abandoned' = abandoned
      /\ delivery' = delivery /\ open' = open \ {"request"} /\ held' = held
      /\ prompts' = prompts /\ crashes' = crashes /\ run.step = "summarizing" /\ Go("compacted")
      /\ conv' = Replacement(conv) /\ Checkpoint(Replacement(conv), pending)
  BY DEF ApplySummary, bounds
<1>2. pending = <<>> /\ MayCompact(conv.entries) /\ conv \in Conversations /\ Good(conv, <<>>, abandoned, ledger)
  BY <1>1 DEF Flow, Compacts, TypeOK, Live
<1>3. /\ Replacement(conv) \in Conversations /\ Good(Replacement(conv), <<>>, abandoned, ledger)
      /\ Carried(Replacement(conv)) = Carried(conv)
  BY <1>2, Compacted
<1>4. Live' /\ Recorded' /\ saved' \in Saved
  <2>1. \A k \in DOMAIN pending : ledger[pending[k]] = "none" \/ pending[k] \in abandoned
    BY <1>2
  <2>2. pending \in Seq(Calls) /\ Good(Replacement(conv), pending, abandoned, ledger)
    BY <1>2, <1>3 DEF TypeOK
  <2>3. QED
    BY <1>1, <1>3, <2>1, <2>2, Checkpoints
<1>5. /\ run' \in Runs /\ run'.step = "compacted"
      /\ run'.at = run.at /\ run'.refs = run.refs /\ run'.rewake = run.rewake
      /\ run'.corrections = run.corrections /\ run'.finished = run.finished
      /\ run'.corrected = run.corrected /\ run'.outcome = run.outcome
  BY <1>1, Goes DEF TypeOK, Steps

<1>6. TypeOK'
  BY <1>1, <1>4, <1>3, <1>5 DEF TypeOK, Saved
<1>7. Flow'
  BY <1>1, <1>2, <1>5 DEF Flow, Quiet, Compacts, InTools, Closing, None
<1>8. Effects'
  BY <1>1, <1>5 DEF Effects
<1>9. Delivering'
  BY <1>1, <1>3, <1>5 DEF Delivering, Started
<1>10. Finished'
  BY <1>1, <1>5 DEF Finished, Spoken, InTools
<1>11. QED
  BY <1>4, <1>6, <1>7, <1>8, <1>9, <1>10

LEMMA CrashKeeps ==
    ASSUME IInv, Crash
    PROVE  IInv'
<1> USE DEF IInv, Sound
<1>1. /\ pending' = <<>> /\ receipt' = None /\ ledger' = ledger /\ abandoned' = abandoned
      /\ delivery' = [x \in Contexts |-> Recovered(x)] /\ open' = open
      /\ prompts' = prompts /\ crashes < MaxCrashes /\ crashes' = crashes + 1 /\ saved' = saved
  BY DEF Crash
<1>2. PICK t : /\ t = [i \in DOMAIN saved.pending |->
                         Result(saved.pending[i], IF KnownAfter(saved.pending[i]) THEN "known" ELSE "interrupted")]
               /\ conv' = With(saved.conv, t)
  BY DEF Crash
<1>3. /\ saved.pending \in Seq(Calls) /\ saved.conv \in Conversations
      /\ Good(saved.conv, saved.pending, abandoned, ledger)
  BY DEF TypeOK, Recorded
<1>4. /\ t \in Seq(Entries) /\ Len(t) = Len(saved.pending)
      /\ Tells(t, saved.pending, abandoned, ledger)
  <2>1. ASSUME NEW i \in DOMAIN saved.pending
        PROVE  /\ t[i] \in Entries /\ t[i].is = "result" /\ t[i].of = saved.pending[i]
               /\ t[i].how \in {"known", "interrupted"}
               /\ t[i].how = "known" <=> KnownAfter(saved.pending[i])
    <3>1. saved.pending[i] \in Calls
      BY <1>3
    <3>2. PICK how \in {"known", "interrupted"} :
            how = (IF KnownAfter(saved.pending[i]) THEN "known" ELSE "interrupted")
      OBVIOUS
    <3>3. t[i] = Result(saved.pending[i], how)
      BY <1>2, <3>2
    <3>4. QED
      BY <3>1, <3>2, <3>3, Made
  <2>2. DOMAIN t = 1..Len(saved.pending) /\ DOMAIN saved.pending = 1..Len(saved.pending)
        /\ Len(saved.pending) \in Nat
    BY <1>2, <1>3
  <2>3. t \in [1..Len(saved.pending) -> Entries]
    BY <1>2, <2>1, <2>2
  <2>4. t \in Seq(Entries) /\ Len(t) = Len(saved.pending)
    BY <2>2, <2>3
  <2>5. \A k \in DOMAIN saved.pending : saved.pending[k] \notin saved.cursor \ abandoned
    BY DEF Recorded
  <2>6. \A k \in DOMAIN saved.pending : saved.pending[k] \notin abandoned =>
            (KnownAfter(saved.pending[k]) <=> ledger[saved.pending[k]] = "known")
    BY <2>5 DEF KnownAfter
  <2>7. Tells(t, saved.pending, abandoned, ledger)
    <3> SUFFICES ASSUME NEW i \in DOMAIN t
                 PROVE  /\ t[i].is = "result" /\ t[i].of = saved.pending[i]
                        /\ saved.pending[i] \notin abandoned =>
                             /\ t[i].how = "known" <=> ledger[saved.pending[i]] = "known"
                             /\ t[i].how = "skipped" => ledger[saved.pending[i]] = "none"
      BY DEF Tells
    <3>1. i \in DOMAIN saved.pending
      BY <2>2
    <3>2. QED
      BY <2>1, <2>6, <3>1
  <2>8. QED
    BY <2>4, <2>7
<1>5. /\ conv' \in Conversations /\ Good(conv', <<>>, abandoned, ledger)
      /\ Carried(conv') = Carried(conv) /\ Carried(saved.conv) = Carried(conv')
      /\ CallsIn(conv'.entries) = CallsIn(saved.conv.entries)
  <2>1. <<>> \in Seq(Calls) /\ Leaves(t, saved.pending, <<>>)
    BY <1>3, <1>4 DEF Leaves
  <2>2. /\ Good(With(saved.conv, t), <<>>, abandoned, ledger)
        /\ Carried(With(saved.conv, t)) = Carried(saved.conv)
        /\ CallsIn(With(saved.conv, t).entries) = CallsIn(saved.conv.entries)
    BY <1>3, <1>4, <2>1, SayResults
  <2>3. With(saved.conv, t) \in Conversations
    BY <1>3, <1>4, Said
  <2>4. QED
    BY <1>2, <2>2, <2>3 DEF Recorded
<1>6. Live' /\ Recorded'
  BY <1>1, <1>5 DEF Live, Recorded
<1>7. /\ delivery' \in [Contexts -> {"none", "pending", "reserved", "delivered", "withheld"}]
      /\ \A x \in Contexts : delivery'[x] # "withheld" => delivery'[x] = delivery[x]
      /\ IsFiniteSet(Started')
  <2>1. delivery \in [Contexts -> {"none", "pending", "reserved", "delivered", "withheld"}]
    BY DEF TypeOK
  <2>2. \A x \in Contexts : /\ delivery'[x] \in {"none", "pending", "reserved", "delivered", "withheld"}
                            /\ delivery'[x] # "withheld" => delivery'[x] = delivery[x]
                            /\ delivery'[x] # delivery[x] => delivery[x] # "none" \/ x \in Startups
    BY <1>1, <2>1 DEF Recovered
  <2>3. Started' \subseteq Started \union Startups
    BY <2>2 DEF Started
  <2>4. IsFiniteSet(Started \union Startups)
    BY FS_Union, NativeLoopAssumption DEF Delivering
  <2>5. IsFiniteSet(Started')
    BY <2>3, <2>4, FS_Subset
  <2>6. delivery' \in [Contexts -> {"none", "pending", "reserved", "delivered", "withheld"}]
    BY <1>1, <2>2
  <2>7. QED
    BY <2>2, <2>5, <2>6
<1>8. /\ run' = Idle /\ run'.step = "idle" /\ run'.at = None /\ run'.refs = {} /\ run'.rewake = {}
      /\ run'.corrections = 0 /\ run'.finished = FALSE /\ run'.corrected = FALSE /\ run'.outcome = None
      /\ run' \in Runs
  BY IdleRun DEF Crash
<1>9. held' \in BOOLEAN
  <2>1. held' \in {TRUE, held \/ Unresolved \/ run.step # "idle"}
    BY DEF Crash
  <2>2. (held \/ Unresolved \/ run.step # "idle") \in BOOLEAN
    OBVIOUS
  <2>3. QED
    BY <2>1, <2>2
<1>10. crashes' \in 0..MaxCrashes
  BY <1>1, NativeLoopAssumption DEF TypeOK

<1>11. TypeOK'
  BY <1>1, <1>5, <1>7, <1>8, <1>9, <1>10, NativeLoopAssumption DEF TypeOK
<1>12. Flow'
  BY <1>1, <1>8 DEF Flow, Quiet, Compacts, InTools, Closing, None
<1>13. Effects'
  BY <1>1, <1>8 DEF Effects
<1>14. Delivering'
  BY <1>5, <1>7, <1>8 DEF Delivering
<1>15. Finished'
  BY <1>8 DEF Finished, InTools
<1>16. QED
  BY <1>6, <1>11, <1>12, <1>13, <1>14, <1>15

-----------------------------------------------------------------------------
(* The invariant holds.                                                    *)
LEMMA Initially ==
    ASSUME Init
    PROVE  IInv
<1> USE DEF Init
<1>1. Empty \in Conversations /\ Empty.entries = <<>> /\ Empty.gone = {}
  BY DEF Empty, Conversations
<1>2. /\ saved \in Saved /\ saved.conv = Empty /\ saved.pending = <<>> /\ saved.cursor = {}
  BY <1>1 DEF Saved
<1>3. Good(Empty, <<>>, {}, ledger)
  BY <1>1 DEF Good, Shape, Ordered, Waiting, Closed, Exact, Once
<1>4. Carried(Empty) = {} /\ CallsIn(Empty.entries) = {}
  BY <1>1, Membership DEF Carried
<1>5. Live
  BY <1>3 DEF Live
<1>6. Recorded
  BY <1>2, <1>3, <1>4 DEF Recorded
<1>7. TypeOK
  <2>1. pending \in Seq(Calls)
    OBVIOUS
  <2>2. receipt \in Calls \union {None} /\ held \in BOOLEAN
    OBVIOUS
  <2>3. open \subseteq {"turn", "request", "compaction"} /\ abandoned \subseteq Calls
    OBVIOUS
  <2>4. /\ ledger \in [Calls -> {"none", "begun", "known", "lost"}]
        /\ delivery \in [Contexts -> {"none", "pending", "reserved", "delivered", "withheld"}]
    OBVIOUS
  <2>5. prompts \in 0..MaxPrompts /\ crashes \in 0..MaxCrashes
    BY NativeLoopAssumption
  <2>6. run \in Runs /\ run.step = "idle" /\ run.corrections <= prompts
    BY IdleRun
  <2>7. conv \in Conversations /\ saved \in Saved
    BY <1>1, <1>2
  <2>8. QED
    BY <2>1, <2>2, <2>4, <2>5, <2>6, <2>7, <2>3 DEF TypeOK, Saved
<1>8. Flow
  BY IdleRun DEF Flow, Quiet, Compacts, InTools, Closing, None
<1>9. Effects
  BY IdleRun DEF Effects
<1>10. Delivering
  <2>1. Started = {}
    BY DEF Started
  <2>2. QED
    BY <1>4, <2>1, IdleRun, FS_EmptySet DEF Delivering
<1>11. Finished
  BY IdleRun DEF Finished, InTools
<1>12. QED
  BY <1>5, <1>6, <1>7, <1>8, <1>9, <1>10, <1>11 DEF IInv, Sound

LEMMA Stutters ==
    ASSUME IInv, UNCHANGED vars
    PROVE  IInv'
<1> USE DEF IInv, Sound, vars
<1>1. Live' /\ Recorded'
  BY DEF Live, Recorded
<1>2. TypeOK'
  BY DEF TypeOK
<1>3. Flow'
  BY DEF Flow, Quiet
<1>4. Effects'
  BY DEF Effects
<1>5. Delivering'
  BY DEF Delivering, Started
<1>6. Finished'
  BY DEF Finished, Spoken
<1>7. QED
  BY <1>1, <1>2, <1>3, <1>4, <1>5, <1>6

LEMMA EveryStep ==
    ASSUME IInv, [Next]_vars
    PROVE  IInv'
<1>1. CASE StartTurn \/ StartRewake \/ Submit \/ SubmitCorrections \/ PromptBlocked
          \/ BeginCompaction \/ CompactionRefused \/ RequestSummary
          \/ ApplySummary
  BY <1>1, StartTurnKeeps, StartRewakeKeeps, SubmitKeeps, SubmitCorrectionsKeeps,
     PromptBlockedKeeps, BeginCompactionKeeps, CompactionRefusedKeeps,
     RequestSummaryKeeps, ApplySummaryKeeps
<1>2. CASE EndCompaction \/ CompactionFails \/ NotLong \/ ContextReady
          \/ ReserveContext \/ RewakeRefused \/ NoContext \/ EnterContext
          \/ CompleteContext
  BY <1>2, EndCompactionKeeps, CompactionFailsKeeps, NotLongKeeps,
     ContextReadyKeeps, ReserveContextKeeps, RewakeRefusedKeeps, NoContextKeeps,
     EnterContextKeeps, CompleteContextKeeps
<1>3. CASE BeginModel \/ ModelRefused \/ PrepareStartup \/ StartupStale \/ Responds
          \/ ProviderFails \/ CompleteStartup \/ TakeCalls \/ SkipCall
  BY <1>3, BeginModelKeeps, ModelRefusedKeeps, PrepareStartupKeeps,
     StartupStaleKeeps, RespondsKeeps, ProviderFailsKeeps, CompleteStartupKeeps,
     TakeCallsKeeps, SkipCallKeeps
<1>4. CASE BeginTool \/ ToolRefused \/ ToolsDone \/ ToolEnds \/ ToolReturns
          \/ Continue \/ Supersede \/ HookFails \/ EndRound
  BY <1>4, BeginToolKeeps, ToolRefusedKeeps, ToolsDoneKeeps, ToolEndsKeeps,
     ToolReturnsKeeps, ContinueKeeps, SupersedeKeeps, HookFailsKeeps,
     EndRoundKeeps
<1>5. CASE Stop \/ StopCorrects \/ Correct \/ Cancel \/ DropTurn
          \/ FinishNativeTurn \/ Close \/ SaveEnd \/ FinishPhase
  BY <1>5, StopKeeps, StopCorrectsKeeps, CorrectKeeps, CancelKeeps,
     DropTurnKeeps, FinishNativeTurnKeeps, CloseKeeps, SaveEndKeeps,
     FinishPhaseKeeps
<1>6. CASE SettleDropped \/ CleanupTimesOut \/ Reconcile \/ Crash
  BY <1>6, SettleDroppedKeeps, CleanupTimesOutKeeps, ReconcileKeeps, CrashKeeps
<1>7. CASE UNCHANGED vars
  BY <1>7, Stutters
<1>8. QED
  BY <1>1, <1>2, <1>3, <1>4, <1>5, <1>6, <1>7 DEF Next

(* The invariant IInv is inductive: what is said of the conversation is    *)
(* said of the checkpoint too, where a restart finds what it must know.    *)
THEOREM Invariance == Spec => []IInv
<1>1. Init => IInv
  BY Initially
<1>2. IInv /\ [Next]_vars => IInv'
  BY EveryStep
<1>3. QED
  BY <1>1, <1>2, PTL DEF Spec

(* Every state has the types of TypeOK (the declarations of native.rs,     *)
(* session.rs and plugin_observer.rs), and the call in execution is the    *)
(* first without a result.                                                 *)
THEOREM TypeCorrect == Spec => []TypeOK
<1>1. IInv => TypeOK
  BY DEF IInv
<1>2. QED
  BY <1>1, Invariance, PTL
-----------------------------------------------------------------------------
(* What the model is told.                                                 *)
LEMMA EachAnswered ==
    ASSUME NEW s \in Seq(Entries), NEW p, NEW lost, NEW effects,
           Shape(s, p, lost), \A k \in DOMAIN p : p[k] \in lost
    PROVE  AnsweredOnce(s, Calls \ lost)
<1>1. Ordered(s) /\ Closed(s, p, lost) /\ DOMAIN s = 1..Len(s) /\ Len(s) \in Nat
  BY DEF Shape
<1>2. Answered(s) \subseteq CallsIn(s)
  <2> SUFFICES ASSUME NEW c \in Answered(s)
               PROVE  c \in CallsIn(s)
    OBVIOUS
  <2>1. PICK i \in DOMAIN s : s[i].is = "result" /\ s[i].of = c
    BY Membership
  <2>2. c \in Calls
    BY <2>1, EntryKinds
  <2>3. PICK j \in DOMAIN s : s[j] = Call(c)
    BY <1>1, <2>1 DEF Ordered
  <2>4. QED
    BY <2>2, <2>3, Made, Membership
<1>3. ASSUME NEW c \in CallsIn(s) \intersect (Calls \ lost)
      PROVE  \E i \in DOMAIN s :
                 /\ ResultsOf(s, c) = {i} /\ CallAt(s, c) < i
                 /\ \A j \in CallAt(s, c)..i : s[j].is \in {"call", "result"}
  <2>1. PICK a \in DOMAIN s : s[a].is = "call" /\ s[a].of = c
    BY Membership
  <2>2. s[a] = Call(c) /\ c \in Calls /\ c \notin lost
    BY <2>1, EntryKinds
  <2>3. CallAt(s, c) = a
    BY <1>1, <2>1, <2>2 DEF Ordered, CallAt
  <2>4. c \in Answered(s)
    BY <1>1, <2>1, <2>2 DEF Closed, Range
  <2>5. PICK i \in DOMAIN s : s[i].is = "result" /\ s[i].of = c
    BY <2>4, Membership
  <2>6. ResultsOf(s, c) = {i}
    BY <1>1, <2>5 DEF Ordered, ResultsOf
  <2>7. a < i
    BY <1>1, <2>1, <2>2, <2>5 DEF Ordered
  <2>8. ASSUME NEW j \in a..i, s[j].is \notin {"call", "result"}
        PROVE  FALSE
    <3>1. j \in DOMAIN s /\ j > a
      BY <1>1, <2>1, <2>8
    <3>2. PICK k \in DOMAIN s : k < j /\ s[k].is = "result" /\ s[k].of = c
      BY <1>1, <2>1, <2>2, <2>8, <3>1 DEF Closed
    <3>3. k = i
      BY <1>1, <2>5, <3>2 DEF Ordered
    <3>4. QED
      BY <1>1, <3>1, <3>2, <3>3
  <2>9. QED
    BY <2>3, <2>6, <2>7, <2>8
<1>4. QED
  BY <1>2, <1>3 DEF AnsweredOnce

(* Whatever interrupted the turn, the process or the response, each call   *)
(* of a request has one result, and it says of the effect what the record  *)
(* says (settle_interruption, restore, tail and the loop of run_turn).     *)
THEOREM CallsAnsweredHolds == Spec => []CallsAnswered
<1>1. ASSUME IInv
      PROVE  CallsAnswered
  <2> SUFFICES ASSUME run.step = "requested"
               PROVE  /\ AnsweredOnce(conv.entries, Calls \ abandoned)
                      /\ TrueAnswers(conv.entries, Calls \ abandoned)
    BY DEF CallsAnswered
  <2>1. /\ conv.entries \in Seq(Entries) /\ Shape(conv.entries, pending, abandoned)
        /\ Exact(conv.entries, abandoned, ledger)
        /\ \A k \in DOMAIN pending : pending[k] \in abandoned
    BY <1>1 DEF IInv, Sound, TypeOK, Conversations, Live, Good, Flow, InTools, Quiet
  <2>2. AnsweredOnce(conv.entries, Calls \ abandoned)
    BY <2>1, EachAnswered
  <2>3. TrueAnswers(conv.entries, Calls \ abandoned)
    BY <2>1 DEF TrueAnswers, ResultsOf, Exact
  <2>4. QED
    BY <2>2, <2>3
<1>2. QED
  BY <1>1, Invariance, PTL

LEMMA Counted ==
    ASSUME NEW c \in Conversations, Once(c), NEW x \in Contexts
    PROVE  Times(c, x) = IF x \in Carried(c) THEN 1 ELSE 0
<1> DEFINE I == {i \in DOMAIN c.entries : c.entries[i] = Context(x)}
<1>1. Context(x).is = "context" /\ Context(x).of = x
  BY Made
<1>2. \A i, j \in I : i = j
  BY <1>1 DEF Once
<1>3. x \in c.gone => I = {}
  BY <1>1 DEF Once
<1>4. x \in Carried(c) <=> x \in c.gone \/ I # {}
  BY DEF Carried
<1>5. Times(c, x) = Cardinality(I) + (IF x \in c.gone THEN 1 ELSE 0)
  BY DEF Times
<1> HIDE DEF I
<1>6. CASE I = {}
  BY <1>4, <1>5, <1>6, FS_EmptySet
<1>7. CASE I # {}
  <2>1. PICK i \in I : TRUE
    BY <1>7
  <2>2. I = {i}
    BY <1>2, <2>1
  <2>3. Cardinality(I) = 1
    BY <2>2, FS_Singleton
  <2>4. QED
    BY <1>3, <1>4, <1>5, <1>7, <2>3
<1>8. QED
  BY <1>6, <1>7

(* A context is in the conversation and in the checkpoint at most once, in *)
(* neither while it may still be offered, and in the checkpoint once it    *)
(* counts as delivered, over restarts and compactions alike                *)
(* (reserve_observer_context, complete, restore, apply_compaction).        *)
THEOREM ContextOnceHolds == Spec => []ContextOnce
<1>1. ASSUME IInv
      PROVE  ContextOnce
  <2> SUFFICES ASSUME NEW x \in Contexts
               PROVE  /\ Times(conv, x) <= 1 /\ Times(saved.conv, x) <= 1
                      /\ delivery[x] \in {"none", "pending"} =>
                           Times(conv, x) = 0 /\ Times(saved.conv, x) = 0
                      /\ delivery[x] = "delivered" => Times(saved.conv, x) = 1
    BY DEF ContextOnce
  <2>1. /\ conv \in Conversations /\ saved.conv \in Conversations
        /\ Once(conv) /\ Once(saved.conv) /\ Carried(saved.conv) = Carried(conv)
    BY <1>1 DEF IInv, Sound, TypeOK, Live, Recorded, Good
  <2>2. /\ Times(conv, x) = IF x \in Carried(conv) THEN 1 ELSE 0
        /\ Times(saved.conv, x) = IF x \in Carried(conv) THEN 1 ELSE 0
    BY <2>1, Counted
  <2>3. /\ delivery[x] \in {"none", "pending"} => x \notin Carried(conv)
        /\ delivery[x] = "delivered" => x \in Carried(conv)
    BY <1>1 DEF IInv, Sound, Delivering
  <2>4. QED
    BY <2>2, <2>3
<1>2. QED
  BY <1>1, Invariance, PTL

(* A turn completes only after an answer that nothing followed: no call,   *)
(* no context and no correction is left without a request (the end of      *)
(* run_turn and its Stop hook).                                            *)
THEOREM LastWordHolds == Spec => []LastWord
<1>1. IInv => LastWord
  BY DEF IInv, Sound, Finished, Spoken, LastWord, Last
<1>2. QED
  BY <1>1, Invariance, PTL

===============================================================================
