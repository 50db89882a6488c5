---------------------------- MODULE SqliterProofs ----------------------------
(***************************************************************************)
(* What holds of the handles of a server, for any number of handles that   *)
(* its process may have.                                                   *)
(***************************************************************************)
EXTENDS Sqliter, SequenceTheorems, FiniteSetTheorems, TLAPS

-----------------------------------------------------------------------------
(* The operations of an iteration.                                         *)

\* Between two methods, and within one that opens no further Sqliter: after a close
\* comes an open or nothing, and after anything else something else.  So the next
\* operation says whether a Sqliter is alive.  A SELECT comes right after the handle
\* it works on was opened.
Flat(ops) ==
  /\ ops \in Seq(Ops)
  /\ \A i \in 1..Len(ops) :
       IF ops[i] = "close" THEN i = Len(ops) \/ ops[i + 1] = "open"
       ELSE /\ i # Len(ops) /\ ops[i + 1] # "open"
            /\ ops[i + 1] = "select" => ops[i] \in {"open", "reopen"}

Between(ops) == ops = <<>> \/ ops[1] = "open"

Method(ops) == Flat(ops) /\ Between(ops)

\* What is left when the first operation was made.
LEMMA FlatTail ==
  ASSUME NEW ops, Flat(ops), ops # <<>>
  PROVE  /\ Flat(Tail(ops)) /\ Head(ops) = ops[1] /\ ops[1] \in Ops
         /\ Between(Tail(ops)) <=> ops[1] = "close"
         /\ Tail(ops) # <<>> /\ Head(Tail(ops)) = "select" => ops[1] \in {"open", "reopen"}
<1>1. /\ ops \in Seq(Ops) /\ Len(ops) \in Nat \ {0} /\ Head(ops) = ops[1] /\ ops[1] \in Ops
      /\ Tail(ops) \in Seq(Ops) /\ Len(Tail(ops)) = Len(ops) - 1
      /\ \A i \in 1..Len(Tail(ops)) : Tail(ops)[i] = ops[i + 1]
  <2>1. ops \in Seq(Ops) /\ Len(ops) \in Nat \ {0}
    BY EmptySeq DEF Flat
  <2> QED BY <2>1, HeadTailProperties, ElementOfSeq
<1>2. \A i \in 1..Len(ops) : IF ops[i] = "close" THEN i = Len(ops) \/ ops[i + 1] = "open"
                              ELSE /\ i # Len(ops) /\ ops[i + 1] # "open"
                                   /\ ops[i + 1] = "select" => ops[i] \in {"open", "reopen"}
  BY DEF Flat
<1>3. PICK n \in Nat : n = Len(ops) - 1 /\ n + 1 = Len(ops)
  <2>1. Len(ops) - 1 \in Nat /\ (Len(ops) - 1) + 1 = Len(ops)
    BY <1>1
  <2> QED BY <2>1
<1>4. PICK rest : rest = Tail(ops)
  OBVIOUS
<1>5. rest \in Seq(Ops) /\ Len(rest) = n /\ \A i \in 1..n : rest[i] = ops[i + 1]
  BY <1>1, <1>3, <1>4, Zenon
<1>6. Flat(rest)
  <2> SUFFICES ASSUME NEW i \in 1..n
               PROVE  IF rest[i] = "close" THEN i = n \/ rest[i + 1] = "open"
                      ELSE /\ i # n /\ rest[i + 1] # "open"
                           /\ rest[i + 1] = "select" => rest[i] \in {"open", "reopen"}
    BY <1>5 DEF Flat
  <2>1. /\ i + 1 \in 1..Len(ops) /\ rest[i] = ops[i + 1]
        /\ i = n <=> i + 1 = Len(ops)
    BY <1>3, <1>5
  <2>2. i # n => rest[i + 1] = ops[(i + 1) + 1]
    <3>1. i # n => i + 1 \in 1..n
      OBVIOUS
    <3> QED BY <1>5, <3>1
  <2> QED BY <1>2, <2>1, <2>2
<1>7. rest = <<>> <=> n = 0
  BY <1>5, EmptySeq
<1>8. n # 0 => rest[1] = ops[2]
  BY <1>3, <1>5
<1>9. IF ops[1] = "close" THEN 1 = Len(ops) \/ ops[2] = "open"
      ELSE /\ 1 # Len(ops) /\ ops[2] # "open"
           /\ ops[2] = "select" => ops[1] \in {"open", "reopen"}
  <2>1. 1 \in 1..Len(ops) /\ 1 + 1 = 2
    BY <1>1
  <2> QED BY <1>2, <2>1
<1>10. Between(rest) <=> ops[1] = "close"
  BY <1>3, <1>7, <1>8, <1>9 DEF Between
<1>11. rest # <<>> /\ Head(rest) = "select" => ops[1] \in {"open", "reopen"}
  <2>1. rest # <<>> => Head(rest) = rest[1]
    BY <1>5, HeadTailProperties
  <2> QED BY <1>3, <1>7, <1>8, <1>9, <2>1
<1> QED BY <1>1, <1>4, <1>6, <1>10, <1>11

\* Methods follow each other.
LEMMA MethodsConcat ==
  ASSUME NEW s, NEW t, Method(s), Method(t)
  PROVE  Method(s \o t)
<1> DEFINE u == s \o t
<1>1. s \in Seq(Ops) /\ t \in Seq(Ops) /\ Len(s) \in Nat /\ Len(t) \in Nat
  BY LenProperties DEF Method, Flat
<1>2. /\ u \in Seq(Ops) /\ Len(u) = Len(s) + Len(t)
      /\ \A i \in 1..Len(s) : u[i] = s[i]
      /\ \A i \in 1..Len(t) : u[Len(s) + i] = t[i]
  BY <1>1, ConcatProperties
<1>3. CASE s = <<>>
  BY <1>1, <1>3, ConcatEmptySeq
<1>4. CASE t = <<>>
  BY <1>1, <1>4, ConcatEmptySeq
<1>5. CASE s # <<>> /\ t # <<>>
  <2>1. Len(s) > 0 /\ Len(t) > 0 /\ s[1] = "open" /\ t[1] = "open"
    BY <1>1, <1>5, EmptySeq DEF Method, Between
  <2> HIDE DEF u
  <2>2. u[1] = "open" /\ u[Len(s) + 1] = "open"
    BY <1>1, <1>2, <2>1
  <2>3. ASSUME NEW i \in 1..Len(u)
        PROVE  IF u[i] = "close" THEN i = Len(u) \/ u[i + 1] = "open"
               ELSE /\ i # Len(u) /\ u[i + 1] # "open"
                    /\ u[i + 1] = "select" => u[i] \in {"open", "reopen"}
    <3>1. CASE i < Len(s)
      <4>1. i \in 1..Len(s) /\ i + 1 \in 1..Len(s) /\ u[i] = s[i] /\ u[i + 1] = s[i + 1]
        BY <1>1, <1>2, <3>1
      <4> QED BY <1>1, <1>2, <2>1, <3>1, <4>1 DEF Method, Flat
    <3>2. CASE i = Len(s)
      <4>1. i \in 1..Len(s) /\ u[i] = s[i] /\ s[i] = "close"
        BY <1>1, <1>2, <2>1, <3>2 DEF Method, Flat
      <4> QED BY <2>2, <3>2, <4>1
    <3>3. CASE i > Len(s)
      <4>1. PICK j \in 1..Len(t) : i = Len(s) + j
        <5>1. i - Len(s) \in 1..Len(t) /\ i = Len(s) + (i - Len(s))
          BY <1>1, <1>2, <3>3
        <5> QED BY <5>1
      <4>2. u[i] = t[j] /\ (i = Len(u) <=> j = Len(t))
        BY <1>1, <1>2, <4>1
      <4>3. j # Len(t) => u[i + 1] = t[j + 1]
        <5> SUFFICES ASSUME j # Len(t) PROVE u[i + 1] = t[j + 1]
          OBVIOUS
        <5>1. j + 1 \in 1..Len(t) /\ i + 1 = Len(s) + (j + 1)
          BY <1>1, <4>1
        <5> QED BY <1>2, <5>1
      <4>4. IF t[j] = "close" THEN j = Len(t) \/ t[j + 1] = "open"
            ELSE /\ j # Len(t) /\ t[j + 1] # "open"
                 /\ t[j + 1] = "select" => t[j] \in {"open", "reopen"}
        BY DEF Method, Flat
      <4> QED BY <4>2, <4>3, <4>4
    <3> QED BY <1>1, <1>2, <3>1, <3>2, <3>3
  <2> QED BY <1>2, <2>2, <2>3 DEF Method, Flat, Between, u
<1> QED BY <1>3, <1>4, <1>5

LEMMA MethodsFlat ==
  /\ Method(<<>>) /\ Method(Authorize) /\ Method(GetPers) /\ Method(Simple)
  /\ \A s \in StorePeers : Method(s)
<1>1. Method(<<>>)
  BY EmptySeq DEF Method, Flat, Between
<1>2. Method(<<"open", "select", "close">>)
  BY DEF Method, Flat, Between, Ops
<1>3. Method(<<"open", "exec", "close">>)
  BY DEF Method, Flat, Between, Ops
<1>4. Method(<<"open", "reopen", "select", "exec", "close">>)
  BY DEF Method, Flat, Between, Ops
<1>5. Method(<<"open", "reopen", "select", "exec", "commit", "exec", "commit", "close">>)
  BY DEF Method, Flat, Between, Ops
<1> QED BY <1>1, <1>2, <1>3, <1>4, <1>5 DEF Authorize, GetPers, Simple, StorePeers

\* What an iteration of the loop makes of them.
LEMMA IterationsFlat ==
  \A served \in Served : Method(served) /\ Method(served \o Sweep)
<1>1. Method(Sweep)
  BY MethodsFlat, MethodsConcat DEF Sweep
<1>2. \A served \in Served : Method(served)
  BY MethodsFlat, MethodsConcat DEF Served
<1> QED BY <1>1, <1>2, MethodsConcat

LEMMA ConstructIs ==
  Construct = <<"open", "exec", "open", "exec", "close", "close">>
<1> DEFINE s == <<"open", "exec">> \o Test
<1>1. <<"open", "exec">> \in Seq(Ops) /\ Test \in Seq(Ops) /\ <<"close">> \in Seq(Ops)
  BY DEF Test, Ops
<1>2. s \in Seq(Ops) /\ Len(s) = 5 /\ \A i \in 1..5 : s[i] = IF i <= 2 THEN <<"open", "exec">>[i] ELSE Test[i - 2]
  BY <1>1, ConcatProperties DEF Test
<1> HIDE DEF s
<1>3. Construct \in Seq(Ops) /\ Len(Construct) = 6 /\ Construct[6] = "close"
      /\ \A i \in 1..5 : Construct[i] = s[i]
  BY <1>1, <1>2, ConcatProperties DEF Construct, s
<1>4. s[1] = "open" /\ s[2] = "exec" /\ s[3] = "open" /\ s[4] = "exec" /\ s[5] = "close"
  BY <1>2 DEF Test
<1>5. PICK t : t = <<"open", "exec", "open", "exec", "close", "close">>
  OBVIOUS
<1>6. t \in Seq(Ops) /\ Len(t) = 6
  BY <1>5 DEF Ops
<1>7. t[1] = "open" /\ t[2] = "exec" /\ t[3] = "open" /\ t[4] = "exec" /\ t[5] = "close" /\ t[6] = "close"
  BY <1>5
<1>8. \A i \in 1..6 : Construct[i] = t[i]
  BY <1>3, <1>4, <1>7
<1> QED BY <1>3, <1>5, <1>6, <1>8, SeqEqual

\* The operations of the constructor, one after the other.
LEMMA ConstructSteps ==
  /\ \A s \in {<<"open", "exec", "open", "exec", "close", "close">>,
               <<"exec", "open", "exec", "close", "close">>,
               <<"open", "exec", "close", "close">>, <<"exec", "close", "close">>,
               <<"close", "close">>, <<"close">>} : s # <<>> /\ Tail(s) \in Seq(Ops)
  /\ /\ Head(<<"open", "exec", "open", "exec", "close", "close">>) = "open"
     /\ Tail(<<"open", "exec", "open", "exec", "close", "close">>)
          = <<"exec", "open", "exec", "close", "close">>
  /\ /\ Head(<<"exec", "open", "exec", "close", "close">>) = "exec"
     /\ Tail(<<"exec", "open", "exec", "close", "close">>) = <<"open", "exec", "close", "close">>
  /\ /\ Head(<<"open", "exec", "close", "close">>) = "open"
     /\ Tail(<<"open", "exec", "close", "close">>) = <<"exec", "close", "close">>
  /\ /\ Head(<<"exec", "close", "close">>) = "exec"
     /\ Tail(<<"exec", "close", "close">>) = <<"close", "close">>
  /\ Head(<<"close", "close">>) = "close" /\ Tail(<<"close", "close">>) = <<"close">>
  /\ Head(<<"close">>) = "close" /\ Tail(<<"close">>) = <<>>
<1>1. /\ <<"exec", "open", "exec", "close", "close">> \in Seq(Ops)
      /\ <<"open", "exec", "close", "close">> \in Seq(Ops)
      /\ <<"exec", "close", "close">> \in Seq(Ops)
      /\ <<"close", "close">> \in Seq(Ops) /\ <<"close">> \in Seq(Ops) /\ <<>> \in Seq(Ops)
  BY DEF Ops
<1>2. /\ Head(<<"open", "exec", "open", "exec", "close", "close">>) = "open"
      /\ Tail(<<"open", "exec", "open", "exec", "close", "close">>)
           = <<"exec", "open", "exec", "close", "close">>
  OBVIOUS
<1>3. /\ Head(<<"exec", "open", "exec", "close", "close">>) = "exec"
      /\ Tail(<<"exec", "open", "exec", "close", "close">>) = <<"open", "exec", "close", "close">>
  OBVIOUS
<1>4. /\ Head(<<"open", "exec", "close", "close">>) = "open"
      /\ Tail(<<"open", "exec", "close", "close">>) = <<"exec", "close", "close">>
  OBVIOUS
<1>5. /\ Head(<<"exec", "close", "close">>) = "exec"
      /\ Tail(<<"exec", "close", "close">>) = <<"close", "close">>
  OBVIOUS
<1>6. /\ Head(<<"close", "close">>) = "close" /\ Tail(<<"close", "close">>) = <<"close">>
      /\ Head(<<"close">>) = "close" /\ Tail(<<"close">>) = <<>>
  OBVIOUS
<1>7. \A s \in {<<"open", "exec", "open", "exec", "close", "close">>,
               <<"exec", "open", "exec", "close", "close">>,
               <<"open", "exec", "close", "close">>, <<"exec", "close", "close">>,
               <<"close", "close">>, <<"close">>} : s # <<>>
  OBVIOUS
<1> QED BY <1>1, <1>2, <1>3, <1>4, <1>5, <1>6, <1>7, Zenon

-----------------------------------------------------------------------------
(* The handles.                                                            *)

\* The constructor is under way: _db began as nullptr, which its Sqliter remembers.
Building ==
  \/ /\ db = 0 /\ Len(olds) = 0
     /\ todo = <<"open", "exec", "open", "exec", "close", "close">>
  \/ /\ db # 0 /\ Len(olds) = 1 /\ olds[1] = 0
     /\ todo \in {<<"exec", "open", "exec", "close", "close">>,
                  <<"open", "exec", "close", "close">>, <<"close">>}
  \/ /\ db # 0 /\ Len(olds) = 2 /\ olds[1] = 0 /\ olds[2] \notin {0, db}
     /\ todo \in {<<"exec", "close", "close">>, <<"close", "close">>}

\* An iteration of the loop is: at most one Sqliter, which remembers another handle.
Serving ==
  /\ db # 0 /\ Flat(todo)
  /\ Len(olds) = IF Between(todo) THEN 0 ELSE 1
  /\ Len(olds) = 1 => olds[1] \notin {0, db}

SqliterInv ==
  /\ SqliterTypeOK /\ HandlesAccounted
  /\ ~exited => Building \/ Serving

\* What the stack of Sqliters holds, read and changed at its end.
LEMMA HeldIs ==
  /\ Len(olds) = 0 => Held = {db} \ {0}
  /\ Len(olds) = 1 => Held = {db, olds[1]} \ {0}
  /\ Len(olds) = 2 => Held = {db, olds[1], olds[2]} \ {0}
<1>1. 1..0 = {} /\ 1..1 = {1} /\ 1..2 = {1, 2}
  OBVIOUS
<1> QED BY <1>1 DEF Held

LEMMA HeldNext ==
  /\ Len(olds') = 0 => Held' = {db'} \ {0}
  /\ Len(olds') = 1 => Held' = {db', olds'[1]} \ {0}
  /\ Len(olds') = 2 => Held' = {db', olds'[1], olds'[2]} \ {0}
<1>1. 1..0 = {} /\ 1..1 = {1} /\ 1..2 = {1, 2}
  OBVIOUS
<1> QED BY <1>1 DEF Held

LEMMA OldsPushed ==
  ASSUME SqliterTypeOK, NEW x \in Handles \cup {0}
  PROVE  /\ Append(olds, x) \in Seq(Handles \cup {0}) /\ Len(Append(olds, x)) = Len(olds) + 1
         /\ Append(olds, x)[Len(olds) + 1] = x
         /\ \A i \in 1..Len(olds) : Append(olds, x)[i] = olds[i]
BY AppendProperties DEF SqliterTypeOK

LEMMA OldsPopped ==
  ASSUME SqliterTypeOK, Len(olds) > 0
  PROVE  LET front == SubSeq(olds, 1, Len(olds) - 1)
         IN /\ front \in Seq(Handles \cup {0}) /\ Len(front) = Len(olds) - 1
            /\ \A i \in 1..Len(olds) - 1 : front[i] = olds[i]
<1>1. Len(olds) \in Nat /\ \A i \in 1..Len(olds) : olds[i] \in Handles \cup {0}
  BY LenProperties, ElementOfSeq DEF SqliterTypeOK
<1>2. \A i \in 1..(Len(olds) - 1) : olds[i] \in Handles \cup {0}
  BY <1>1
<1>3. PICK n \in Int : n = Len(olds) - 1
  BY <1>1
<1> QED BY <1>1, <1>2, <1>3, SubSeqProperties

\* A server that is left with two handles has lost the others.
LEMMA AllButTwo ==
  ASSUME leaked \subseteq Handles, NEW a, NEW b, Handles \subseteq leaked \cup {a, b}
  PROVE  Cardinality(leaked) + 2 >= MaxHandles
<1>1. IsFiniteSet(Handles) /\ Cardinality(Handles) = MaxHandles
  BY FS_Interval, SqliterAssumption DEF Handles, SqliterAssumption
<1>2. IsFiniteSet(leaked) /\ Cardinality(leaked) \in Nat
  BY <1>1, FS_Subset, FS_CardinalityType
<1>3. ASSUME NEW S, IsFiniteSet(S), NEW x
      PROVE  /\ IsFiniteSet(S \cup {x}) /\ Cardinality(S) \in Nat /\ Cardinality(S \cup {x}) \in Nat
             /\ Cardinality(S \cup {x}) <= Cardinality(S) + 1
  <2>1. /\ IsFiniteSet(S \cup {x})
        /\ x \in S => Cardinality(S \cup {x}) = Cardinality(S)
        /\ x \notin S => Cardinality(S \cup {x}) = Cardinality(S) + 1
    BY <1>3, FS_AddElement
  <2>2. Cardinality(S) \in Nat
    BY <1>3, FS_CardinalityType
  <2> QED BY <2>1, <2>2
<1>4. /\ IsFiniteSet((leaked \cup {a}) \cup {b})
      /\ Cardinality((leaked \cup {a}) \cup {b}) \in Nat
      /\ Cardinality((leaked \cup {a}) \cup {b}) <= Cardinality(leaked) + 2
  <2>1. IsFiniteSet(leaked \cup {a}) /\ Cardinality(leaked \cup {a}) \in Nat
        /\ Cardinality(leaked \cup {a}) <= Cardinality(leaked) + 1
    BY <1>2, <1>3
  <2>2. /\ IsFiniteSet((leaked \cup {a}) \cup {b})
        /\ Cardinality((leaked \cup {a}) \cup {b}) \in Nat
        /\ Cardinality((leaked \cup {a}) \cup {b}) <= Cardinality(leaked \cup {a}) + 1
    BY <1>3, <2>1
  <2> QED BY <1>2, <2>1, <2>2
<1>5. Cardinality(Handles) <= Cardinality((leaked \cup {a}) \cup {b})
  <2>1. Handles \in SUBSET ((leaked \cup {a}) \cup {b})
    OBVIOUS
  <2> QED BY <1>4, <2>1, FS_Subset
<1> QED BY <1>1, <1>2, <1>4, <1>5, SqliterAssumption DEF SqliterAssumption

\* Which operation may come when.
LEMMA WhatComes ==
  ASSUME SqliterInv, ~exited, todo # <<>>
  PROVE  /\ Head(todo) = "open" =>
              \/ Len(olds) = 0
              \/ Len(olds) = 1 /\ olds[1] = 0 /\ db # 0
         /\ Head(todo) # "open" =>
              /\ db # 0 /\ Len(olds) > 0 /\ olds[Len(olds)] # db
              /\ Len(olds) = 1 \/ (Len(olds) = 2 /\ olds[1] = 0 /\ olds[2] # 0)
         /\ Head(todo) \in {"reopen", "select", "commit"} => Len(olds) = 1 /\ olds[1] # 0
         /\ Tail(todo) \in Seq(Ops)
<1>1. CASE Building
  <2>1. CASE db = 0 /\ Len(olds) = 0 /\ todo = <<"open", "exec", "open", "exec", "close", "close">>
    BY <2>1, ConstructSteps
  <2>2. CASE /\ db # 0 /\ Len(olds) = 1 /\ olds[1] = 0
             /\ todo \in {<<"exec", "open", "exec", "close", "close">>,
                          <<"open", "exec", "close", "close">>, <<"close">>}
    <3>1. Head(todo) \in {"exec", "open", "close"} /\ Tail(todo) \in Seq(Ops)
      BY <2>2, ConstructSteps
    <3> QED BY <2>2, <3>1
  <2>3. CASE /\ db # 0 /\ Len(olds) = 2 /\ olds[1] = 0 /\ olds[2] \notin {0, db}
             /\ todo \in {<<"exec", "close", "close">>, <<"close", "close">>}
    <3>1. Head(todo) \in {"exec", "close"} /\ Tail(todo) \in Seq(Ops)
      BY <2>3, ConstructSteps
    <3> QED BY <2>3, <3>1
  <2> QED BY <1>1, <2>1, <2>2, <2>3 DEF Building
<1>2. CASE Serving
  <2>1. Flat(todo) /\ Head(todo) = todo[1] /\ Tail(todo) \in Seq(Ops)
    BY <1>2, FlatTail DEF Serving, Flat
  <2>2. Between(todo) <=> Head(todo) = "open"
    BY <2>1 DEF Between
  <2> QED BY <1>2, <2>1, <2>2 DEF Serving
<1> QED BY <1>1, <1>2 DEF SqliterInv

\* What the invariant says of the handles while the server runs.
LEMMA HandlesWhen ==
  ASSUME SqliterInv, ~exited
  PROVE  /\ db \in Handles \cup {0} /\ Len(olds) \in 0..2
         /\ open = Held \cup leaked /\ Held \cap leaked = {}
         /\ leaked \subseteq open /\ busy \subseteq open /\ open \subseteq Handles
         /\ 0 \notin Handles
         /\ \A i \in 1..Len(olds) : olds[i] \in Handles \cup {0}
<1>1. Len(olds) \in 0..2
  BY DEF SqliterInv, Building, Serving
<1>2. \A i \in 1..Len(olds) : olds[i] \in Handles \cup {0}
  BY <1>1, ElementOfSeq DEF SqliterInv, SqliterTypeOK
<1> QED BY <1>1, <1>2 DEF SqliterInv, SqliterTypeOK, HandlesAccounted, Handles

\* Where the constructor or the iteration stands once its next operation is made.
LEMMA ScriptAfter ==
  ASSUME SqliterInv, ~exited, todo # <<>>, todo' = Tail(todo)
  PROVE  \/ /\ Building /\ Head(todo) = "open" /\ Len(olds) \in {0, 1}
            /\ Len(olds) = 0 => db = 0 /\ todo' = <<"exec", "open", "exec", "close", "close">>
            /\ Len(olds) = 1 => db # 0 /\ olds[1] = 0 /\ todo' = <<"exec", "close", "close">>
         \/ /\ Building /\ Head(todo) = "exec" /\ db # 0 /\ Len(olds) \in {1, 2} /\ olds[1] = 0
            /\ Len(olds) = 1 => todo' = <<"open", "exec", "close", "close">>
            /\ Len(olds) = 2 => olds[2] \notin {0, db} /\ todo' = <<"close", "close">>
         \/ /\ Building /\ Head(todo) = "close" /\ db # 0 /\ Len(olds) \in {1, 2} /\ olds[1] = 0
            /\ Len(olds) = 1 => todo' = <<>>
            /\ Len(olds) = 2 => olds[2] \notin {0, db} /\ todo' = <<"close">>
         \/ /\ Serving /\ Flat(todo')
            /\ Len(olds) = IF Head(todo) = "open" THEN 0 ELSE 1
            /\ Between(todo') <=> Head(todo) = "close"
<1>1. CASE Building
  <2>1. CASE db = 0 /\ Len(olds) = 0 /\ todo = <<"open", "exec", "open", "exec", "close", "close">>
    BY <1>1, <2>1, ConstructSteps
  <2>2. CASE db # 0 /\ Len(olds) = 1 /\ olds[1] = 0
             /\ todo = <<"exec", "open", "exec", "close", "close">>
    BY <1>1, <2>2, ConstructSteps
  <2>3. CASE db # 0 /\ Len(olds) = 1 /\ olds[1] = 0 /\ todo = <<"open", "exec", "close", "close">>
    BY <1>1, <2>3, ConstructSteps
  <2>4. CASE db # 0 /\ Len(olds) = 1 /\ olds[1] = 0 /\ todo = <<"close">>
    BY <1>1, <2>4, ConstructSteps
  <2>5. CASE /\ db # 0 /\ Len(olds) = 2 /\ olds[1] = 0 /\ olds[2] \notin {0, db}
             /\ todo = <<"exec", "close", "close">>
    BY <1>1, <2>5, ConstructSteps
  <2>6. CASE /\ db # 0 /\ Len(olds) = 2 /\ olds[1] = 0 /\ olds[2] \notin {0, db}
             /\ todo = <<"close", "close">>
    BY <1>1, <2>6, ConstructSteps
  <2> QED BY <1>1, <2>1, <2>2, <2>3, <2>4, <2>5, <2>6, Zenon DEF Building
<1>2. CASE Serving
  <2>1. /\ Flat(todo') /\ Head(todo) = todo[1]
        /\ Between(todo') <=> Head(todo) = "close"
    BY <1>2, FlatTail DEF Serving
  <2>2. Between(todo) <=> Head(todo) = "open"
    BY <2>1 DEF Between
  <2> QED BY <1>2, <2>1, <2>2 DEF Serving
<1> QED BY <1>1, <1>2 DEF SqliterInv

-----------------------------------------------------------------------------
(* The operations.                                                         *)

LEMMA OpenKeeps ==
  ASSUME SqliterInv, Open
  PROVE  SqliterInv'
<1>1. ~exited /\ todo # <<>> /\ Head(todo) = "open" /\ todo' = Tail(todo) /\ Opened
      /\ olds' = Append(olds, db) /\ busy' = busy /\ leaked' = leaked
  BY DEF Open, Does
<1>2. /\ db \in Handles \cup {0} /\ Len(olds) \in 0..2
      /\ open = Held \cup leaked /\ Held \cap leaked = {}
      /\ leaked \subseteq open /\ busy \subseteq open /\ open \subseteq Handles
      /\ 0 \notin Handles
  BY <1>1, HandlesWhen
<1>3. SqliterTypeOK
  BY DEF SqliterInv
<1>4. /\ olds' \in Seq(Handles \cup {0}) /\ Len(olds') = Len(olds) + 1
      /\ olds'[Len(olds) + 1] = db /\ \A i \in 1..Len(olds) : olds'[i] = olds[i]
  BY <1>1, <1>2, <1>3, OldsPushed
<1>5. todo' \in Seq(Ops)
  BY <1>1, WhatComes
<1>6. /\ Len(olds) = 0 => Held = {db} \ {0}
      /\ Len(olds) = 1 => Held = {db, olds[1]} \ {0}
  BY HeldIs
<1>7. Len(olds) \in {0, 1} /\ (Len(olds) = 1 => olds[1] = 0)
  BY <1>1, WhatComes
<1>8. CASE open = Handles /\ exited' = TRUE /\ db' = db /\ open' = open
  <2>1. SqliterTypeOK'
    BY <1>1, <1>2, <1>4, <1>5, <1>8 DEF SqliterTypeOK
  <2>2. /\ Len(olds') = 1 => Held' = {db', olds'[1]} \ {0}
        /\ Len(olds') = 2 => Held' = {db', olds'[1], olds'[2]} \ {0}
    BY HeldNext
  <2>3. Held' = Held
    <3>1. CASE Len(olds) = 0
      <4>1. Len(olds') = 1 /\ olds'[1] = db
        BY <1>4, <3>1
      <4> QED BY <1>6, <1>8, <2>2, <3>1, <4>1
    <3>2. CASE Len(olds) = 1
      <4>1. Len(olds') = 2 /\ olds'[1] = olds[1] /\ olds'[2] = db
        BY <1>4, <3>2
      <4> QED BY <1>6, <1>8, <2>2, <3>2, <4>1
    <3> QED BY <1>7, <3>1, <3>2
  <2>4. Cardinality(leaked) + 2 >= MaxHandles
    BY <1>2, <1>6, <1>7, <1>8, AllButTwo
  <2> QED BY <1>1, <1>2, <1>8, <2>1, <2>3, <2>4 DEF SqliterInv, HandlesAccounted
<1>9. ASSUME NEW h \in Handles \ open, db' = h, open' = open \cup {h}, exited' = exited
      PROVE  SqliterInv'
  <2>1. SqliterTypeOK'
    BY <1>1, <1>2, <1>3, <1>4, <1>5, <1>9 DEF SqliterTypeOK
  <2>2. /\ Len(olds') = 1 => Held' = {db', olds'[1]} \ {0}
        /\ Len(olds') = 2 => Held' = {db', olds'[1], olds'[2]} \ {0}
    BY HeldNext
  <2>3. Held' = Held \cup {h}
    BY <1>2, <1>4, <1>6, <1>7, <1>9, <2>2
  <2>4. HandlesAccounted'
    BY <1>1, <1>2, <1>9, <2>3 DEF HandlesAccounted
  <2>5. db # 0 => db # h
    BY <1>2, <1>6, <1>7, <1>9
  <2>6. Building' \/ Serving'
    BY <1>1, <1>2, <1>4, <1>7, <1>9, <2>5, ScriptAfter DEF Building, Serving
  <2> QED BY <2>1, <2>4, <2>6 DEF SqliterInv
<1> QED BY <1>1, <1>8, <1>9 DEF Opened

LEMMA ReopenKeeps ==
  ASSUME SqliterInv, Reopen
  PROVE  SqliterInv'
<1>1. ~exited /\ todo # <<>> /\ Head(todo) = "reopen" /\ todo' = Tail(todo) /\ Opened
      /\ olds' = olds /\ busy' = busy
      /\ leaked' = IF exited' THEN leaked ELSE leaked \cup {db}
  BY DEF Reopen, Does
<1>2. /\ db \in Handles \cup {0}
      /\ open = Held \cup leaked /\ Held \cap leaked = {}
      /\ leaked \subseteq open /\ busy \subseteq open /\ open \subseteq Handles
      /\ 0 \notin Handles
  BY <1>1, HandlesWhen
<1>3. SqliterTypeOK
  BY DEF SqliterInv
<1>4. todo' \in Seq(Ops)
  BY <1>1, WhatComes
<1>5. db # 0 /\ Len(olds) = 1 /\ olds[1] \notin {0, db}
  BY <1>1, WhatComes
<1>6. Held = {db, olds[1]}
  BY <1>2, <1>5, HeldIs
<1>7. CASE open = Handles /\ exited' = TRUE /\ db' = db /\ open' = open
  <2>1. Held' = Held
    BY <1>1, <1>7 DEF Held
  <2>2. SqliterTypeOK'
    BY <1>1, <1>3, <1>4, <1>7 DEF SqliterTypeOK
  <2>3. Cardinality(leaked) + 2 >= MaxHandles
    BY <1>2, <1>6, <1>7, AllButTwo
  <2> QED BY <1>1, <1>2, <1>7, <2>1, <2>2, <2>3 DEF SqliterInv, HandlesAccounted
<1>8. ASSUME NEW h \in Handles \ open, db' = h, open' = open \cup {h}, exited' = exited
      PROVE  SqliterInv'
  <2>1. leaked' = leaked \cup {db} /\ ~exited'
    BY <1>1, <1>8
  <2>2. SqliterTypeOK'
    BY <1>1, <1>2, <1>3, <1>4, <1>6, <1>8, <2>1 DEF SqliterTypeOK
  <2>3. Len(olds') = 1 => Held' = {db', olds'[1]} \ {0}
    BY HeldNext
  <2>4. Held' = {h, olds[1]}
    BY <1>1, <1>2, <1>5, <1>8, <2>3
  <2>5. HandlesAccounted'
    BY <1>2, <1>5, <1>6, <1>8, <2>1, <2>4 DEF HandlesAccounted
  <2>6. Serving'
    <3>1. Flat(todo') /\ ~Between(todo')
      BY <1>1, ScriptAfter
    <3>2. h # 0 /\ olds[1] # h
      BY <1>2, <1>6, <1>8
    <3> QED BY <1>1, <1>5, <1>8, <3>1, <3>2 DEF Serving
  <2> QED BY <2>2, <2>5, <2>6 DEF SqliterInv
<1> QED BY <1>1, <1>7, <1>8 DEF Opened

\* The operations that leave the handles as they are: the others.
LEMMA UsesKeep ==
  ASSUME SqliterInv, Exec \/ (\E prepared \in BOOLEAN : Select(prepared))
  PROVE  SqliterInv'
<1>1. /\ ~exited /\ todo # <<>> /\ Head(todo) \in {"exec", "commit", "select"} /\ todo' = Tail(todo)
      /\ db' = db /\ olds' = olds /\ open' = open /\ leaked' = leaked /\ exited' = exited
      /\ busy' \in {busy, busy \cup {db}}
  BY DEF Exec, Select, Does
<1>2. SqliterTypeOK /\ HandlesAccounted
  BY DEF SqliterInv
<1>3. todo' \in Seq(Ops) /\ db # 0
  BY <1>1, WhatComes
<1>4. Held' = Held /\ db \in open
  BY <1>1, <1>2, <1>3 DEF Held, HandlesAccounted
<1>5. SqliterTypeOK' /\ HandlesAccounted'
  BY <1>1, <1>2, <1>3, <1>4 DEF SqliterTypeOK, HandlesAccounted
<1>6. Building' \/ Serving'
  BY <1>1, ScriptAfter DEF Building, Serving
<1> QED BY <1>5, <1>6 DEF SqliterInv

LEMMA CloseKeeps ==
  ASSUME SqliterInv, Close
  PROVE  SqliterInv'
<1>1. /\ ~exited /\ todo # <<>> /\ Head(todo) = "close" /\ todo' = Tail(todo)
      /\ db' = db /\ busy' = busy /\ exited' = exited
      /\ olds' = SubSeq(olds, 1, Len(olds) - 1)
  BY DEF Close, Does
<1>2. PICK old : old = olds[Len(olds)]
  OBVIOUS
<1>3. IF old \in busy THEN leaked' = leaked \cup {old} /\ open' = open
      ELSE open' = open \ {old} /\ leaked' = leaked
  BY <1>2 DEF Close
<1>4. /\ db \in Handles /\ Len(olds) \in {1, 2} /\ old # db
      /\ Len(olds) = 2 => olds[1] = 0 /\ old # 0
      /\ todo' \in Seq(Ops)
  <2>1. db # 0 /\ Len(olds) \in {1, 2} /\ old # db /\ todo' \in Seq(Ops)
        /\ (Len(olds) = 2 => olds[1] = 0 /\ olds[2] # 0)
    BY <1>1, <1>2, WhatComes
  <2> QED BY <1>1, <1>2, <2>1, HandlesWhen
<1>5. /\ open = Held \cup leaked /\ Held \cap leaked = {}
      /\ leaked \subseteq open /\ busy \subseteq open /\ open \subseteq Handles
      /\ 0 \notin Handles
  BY <1>1, HandlesWhen
<1>6. SqliterTypeOK
  BY DEF SqliterInv
<1>7. Held = {db, old} \ {0}
  BY <1>2, <1>4, HeldIs
<1>8. /\ olds' \in Seq(Handles \cup {0}) /\ Len(olds') = Len(olds) - 1
      /\ Len(olds) = 2 => olds'[1] = olds[1]
  <2>1. Len(olds) > 0 /\ (Len(olds) = 2 => 1 \in 1..Len(olds) - 1)
    BY <1>4
  <2> QED BY <1>1, <1>6, <2>1, OldsPopped
<1>9. SqliterTypeOK'
  <2>1. busy' \subseteq open' /\ leaked' \subseteq open' /\ open' \subseteq Handles
    BY <1>1, <1>3, <1>4, <1>5, <1>7
  <2> QED BY <1>1, <1>4, <1>6, <1>8, <2>1 DEF SqliterTypeOK
<1>10. Held' = {db}
  <2>1. /\ Len(olds') = 0 => Held' = {db'} \ {0}
        /\ Len(olds') = 1 => Held' = {db', olds'[1]} \ {0}
    BY HeldNext
  <2> QED BY <1>1, <1>4, <1>5, <1>8, <2>1
<1>11. HandlesAccounted'
  BY <1>1, <1>3, <1>4, <1>5, <1>7, <1>10 DEF HandlesAccounted
<1>12. Building' \/ Serving'
  <2>1. CASE Len(olds) = 2
    BY <1>1, <1>4, <1>5, <1>8, <2>1, ScriptAfter DEF Building
  <2>2. CASE Len(olds) = 1
    <3>1. Flat(todo') /\ Between(todo')
      BY <1>1, <2>2, ScriptAfter, MethodsFlat DEF Method
    <3> QED BY <1>1, <1>4, <1>5, <1>8, <2>2, <3>1 DEF Serving
  <2> QED BY <1>4, <2>1, <2>2
<1> QED BY <1>9, <1>11, <1>12 DEF SqliterInv

LEMMA TurnKeeps ==
  ASSUME SqliterInv, NEW methods, Method(methods), Turn(methods)
  PROVE  SqliterInv'
<1>1. /\ ~exited /\ todo = <<>> /\ todo' = methods
      /\ db' = db /\ olds' = olds /\ open' = open /\ busy' = busy /\ leaked' = leaked
      /\ exited' = exited
  BY DEF Turn
<1>2. SqliterTypeOK' /\ HandlesAccounted'
  BY <1>1 DEF SqliterInv, SqliterTypeOK, HandlesAccounted, Held, Method, Flat
<1>3. Serving
  BY <1>1, ConstructSteps DEF SqliterInv, Building
<1>4. Serving'
  BY <1>1, <1>3 DEF Serving, Method, Between
<1> QED BY <1>2, <1>4 DEF SqliterInv

LEMMA SqliterStarts ==
  ASSUME SqliterInit
  PROVE  SqliterInv
<1>1. /\ db = 0 /\ olds = <<>> /\ Len(olds) = 0 /\ open = {} /\ busy = {} /\ leaked = {} /\ exited = FALSE
      /\ todo = <<"open", "exec", "open", "exec", "close", "close">>
  BY ConstructIs DEF SqliterInit
<1>2. todo \in Seq(Ops)
  BY <1>1 DEF Ops
<1>3. SqliterTypeOK
  BY <1>1, <1>2, EmptySeq DEF SqliterTypeOK
<1>4. Held = {}
  BY <1>1, HeldIs
<1> QED BY <1>1, <1>3, <1>4 DEF SqliterInv, HandlesAccounted, Building

LEMMA SqliterInvHolds ==
  SqliterSpec => []SqliterInv
<1>1. SqliterInit => SqliterInv
  BY SqliterStarts
<1>2. SqliterInv /\ [SqliterNext]_sqliterVars => SqliterInv'
  <2> SUFFICES ASSUME SqliterInv, [SqliterNext]_sqliterVars PROVE SqliterInv'
    OBVIOUS
  <2>1. CASE Open
    BY <2>1, OpenKeeps
  <2>2. CASE Reopen
    BY <2>2, ReopenKeeps
  <2>3. CASE Select(TRUE) \/ Select(FALSE) \/ Exec
    BY <2>3, UsesKeep
  <2>4. CASE Close
    BY <2>4, CloseKeeps
  <2>5. CASE SweepTurn \/ \E served \in Served : Turn(served)
    BY <2>5, TurnKeeps, IterationsFlat DEF SweepTurn
  <2>6. CASE UNCHANGED sqliterVars
    BY <2>6 DEF sqliterVars, SqliterInv, SqliterTypeOK, HandlesAccounted, Held, Building, Serving
  <2> QED BY <2>1, <2>2, <2>3, <2>4, <2>5, <2>6 DEF SqliterNext, Step
<1> QED BY <1>1, <1>2, PTL DEF SqliterSpec

\* _db, the handles remembered, those open, busy and lost, and what an iteration has
\* still to do are what they should be.
THEOREM SqliterTypes ==
  SqliterSpec => []SqliterTypeOK
<1>1. SqliterInv => SqliterTypeOK
  BY DEF SqliterInv
<1> QED BY <1>1, SqliterInvHolds, PTL

\* Every open handle is held by the server or lost to it for good, never both, and a
\* server that exit(1) ended in _open has lost all of its handles but two.
THEOREM EveryHandleCounts ==
  SqliterSpec => []HandlesAccounted
<1>1. SqliterInv => HandlesAccounted
  BY DEF SqliterInv
<1> QED BY <1>1, SqliterInvHolds, PTL

\* No method of Sqlyte, nor the COMMIT of a Sqliter, works on a handle that was
\* closed or was never opened.
THEOREM NothingClosedIsUsed ==
  SqliterSpec => []HeldAreOpen
<1>1. SqliterInv => HeldAreOpen
  <2> SUFFICES ASSUME SqliterInv PROVE HeldAreOpen
    OBVIOUS
  <2>1. Held \subseteq open
    BY DEF SqliterInv, HandlesAccounted
  <2>2. ASSUME ~exited, todo # <<>>, Head(todo) \in {"exec", "select", "reopen"}
        PROVE  db # 0
    BY <2>2, WhatComes
  <2>3. ASSUME ~exited, todo # <<>>, Head(todo) = "commit"
        PROVE  olds[Len(olds)] # 0
    BY <2>3, WhatComes
  <2> QED BY <2>1, <2>2, <2>3 DEF HeldAreOpen
<1> QED BY <1>1, SqliterInvHolds, PTL

-----------------------------------------------------------------------------
(* What a SELECT costs.                                                    *)

\* The next operation works on a handle just opened, if it is a SELECT.
FreshBySelect ==
  ~exited /\ todo # <<>> /\ Head(todo) = "select" => db # 0 /\ db \notin busy

\* Where a SELECT is next, its handle was opened last.
LEMMA SelectFollows ==
  ASSUME SqliterInv, ~exited, todo # <<>>, todo' = Tail(todo), todo' # <<>>,
         Head(todo') = "select"
  PROVE  Head(todo) \in {"open", "reopen"}
<1>1. CASE Building
  BY <1>1, ConstructSteps DEF Building
<1>2. CASE Serving
  BY <1>2, FlatTail DEF Serving
<1> QED BY <1>1, <1>2 DEF SqliterInv

LEMMA SelectsAreFresh ==
  SqliterSpec => []FreshBySelect
<1>1. SqliterInit => FreshBySelect
  BY ConstructSteps, ConstructIs DEF SqliterInit, FreshBySelect
<1>2. SqliterInv /\ SqliterInv' /\ FreshBySelect /\ [SqliterNext]_sqliterVars => FreshBySelect'
  <2> SUFFICES ASSUME SqliterInv, SqliterInv', FreshBySelect, [SqliterNext]_sqliterVars,
                      ~exited', todo' # <<>>, Head(todo') = "select"
               PROVE  db' # 0 /\ db' \notin busy'
    BY DEF FreshBySelect
  <2>1. CASE Step
    <3>1. ~exited /\ todo # <<>> /\ todo' = Tail(todo)
      BY <2>1 DEF Step, Open, Reopen, Select, Exec, Close, Does
    <3>2. Head(todo) \in {"open", "reopen"}
      BY <3>1, SelectFollows
    <3>3. Open \/ Reopen
      BY <2>1, <3>2 DEF Step, Select, Exec, Close, Does
    <3>4. PICK h \in Handles \ open : db' = h /\ busy' = busy
      BY <3>3 DEF Open, Reopen, Opened
    <3>5. 0 \notin Handles /\ busy \subseteq open
      BY <3>1, HandlesWhen
    <3> QED BY <3>4, <3>5
  <2>2. CASE SweepTurn \/ \E served \in Served : Turn(served)
    <3>1. PICK methods : Method(methods) /\ todo' = methods
      BY <2>2, IterationsFlat DEF SweepTurn, Turn
    <3>2. Head(todo') = "open"
      BY <3>1, FlatTail DEF Method, Between
    <3> QED BY <3>2
  <2>3. CASE UNCHANGED sqliterVars
    BY <2>3 DEF sqliterVars, FreshBySelect
  <2> QED BY <2>1, <2>2, <2>3 DEF SqliterNext
<1> QED BY <1>1, <1>2, SqliterInvHolds, PTL DEF SqliterSpec

\* A prepared SELECT takes a handle that had no statement, and neither that statement
\* nor a handle that was lost ever goes.
SelectsCost ==
  [][/\ busy \subseteq busy' /\ leaked \subseteq leaked'
     /\ Select(TRUE) => db \in open /\ db \notin busy /\ busy' = busy \cup {db}]_sqliterVars

\* A server can make no more prepared SELECTs in its life than its process can have
\* handles: each makes busy larger, which is always among the open (get_pers,
\* authorize, store_peer and the destructor of Sqliter, which looks at no result).
THEOREM EverySelectCosts ==
  SqliterSpec => SelectsCost
<1>1. SqliterInv /\ FreshBySelect /\ [SqliterNext]_sqliterVars =>
        [/\ busy \subseteq busy' /\ leaked \subseteq leaked'
         /\ Select(TRUE) => db \in open /\ db \notin busy /\ busy' = busy \cup {db}]_sqliterVars
  <2>1. ASSUME SqliterNext PROVE busy \subseteq busy' /\ leaked \subseteq leaked'
    BY <2>1 DEF SqliterNext, Step, SweepTurn, Turn, Open, Reopen, Select, Exec, Close
  <2>2. ASSUME SqliterInv, FreshBySelect, Select(TRUE)
        PROVE  db \in open /\ db \notin busy /\ busy' = busy \cup {db}
    <3>1. ~exited /\ todo # <<>> /\ Head(todo) = "select" /\ busy' = busy \cup {db}
      BY <2>2 DEF Select, Does
    <3>2. db # 0 /\ db \notin busy
      BY <2>2, <3>1 DEF FreshBySelect
    <3>3. Held \subseteq open
      BY <2>2, <3>1, HandlesWhen
    <3> QED BY <3>1, <3>2, <3>3 DEF Held
  <2>3. CASE SqliterNext
    BY <2>1, <2>2, <2>3
  <2>4. CASE UNCHANGED sqliterVars
    BY <2>4
  <2> QED BY <2>3, <2>4
<1> QED BY <1>1, SqliterInvHolds, SelectsAreFresh, PTL DEF SqliterSpec, SelectsCost

\* Between two iterations, where the server may wait for ever, one handle is in use:
\* all the others that are open are lost.
IdleHoldsOne ==
  ~exited /\ todo = <<>> => db \in open /\ open \ leaked = {db}

\* No iteration, whatever it served, leaves a Sqliter or a second handle behind.
THEOREM WaitsWithOne ==
  SqliterSpec => []IdleHoldsOne
<1>1. SqliterInv => IdleHoldsOne
  <2> SUFFICES ASSUME SqliterInv, ~exited, todo = <<>>
               PROVE  db \in open /\ open \ leaked = {db}
    BY DEF IdleHoldsOne
  <2>1. Serving
    BY ConstructSteps DEF SqliterInv, Building
  <2>2. db # 0 /\ Len(olds) = 0
    BY <2>1 DEF Serving, Between
  <2>3. Held = {db}
    BY <2>2, HeldIs
  <2> QED BY <2>3, HandlesWhen
<1> QED BY <1>1, SqliterInvHolds, PTL
=============================================================================
