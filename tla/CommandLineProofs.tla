--------------------------- MODULE CommandLineProofs ---------------------------
(***************************************************************************)
(* What parse_args accepts, for all arguments and command lines, and what  *)
(* its generator of requests produces, for all patterns.                   *)
(*                                                                         *)
(* EnumeratesPatterns compares what was produced with what is expected.    *)
(* To be inductive it must say what is still to come: of a generator the   *)
(* values it has left, of a machine the combinations that its stack is     *)
(* still to give, and of the requests those of all machines in a row.      *)
(* Every iteration moves the first of them to what was produced, or leaves *)
(* them as they are.                                                       *)
(***************************************************************************)
EXTENDS CommandLine, FiniteSetTheorems, SequenceTheorems, WellFoundedInduction, TLAPS

-------------------------------------------------------------------------------
(***************************************************************************)
(* Induction over the natural numbers, for a set in place of a predicate.  *)
(***************************************************************************)

\* A set of natural numbers has a least one.
LEMMA Least ==
    ASSUME NEW S, S \subseteq Nat, S # {}
    PROVE  \E i \in S : \A j \in S : i <= j
<1>1. IsWellFoundedOn(OpToRel(<, Nat), Nat)
  BY NatLessThanWellFounded
<1>2. PICK i \in S : \A j \in S : ~ (<<j, i>> \in OpToRel(<, Nat))
  BY <1>1, WFMin
<1>3. ASSUME NEW j \in S PROVE i <= j
  <2>1. i \in Nat /\ j \in Nat
    OBVIOUS
  <2>2. ~ (j < i)
    BY <1>2, <2>1 DEF OpToRel
  <2> QED
    BY <2>1, <2>2
<1> QED
  BY <1>3

\* A set with 0 in it, and with every number the next one, has all of them.
LEMMA Induction ==
    ASSUME NEW S, 0 \in S, \A n \in Nat : n \in S => n + 1 \in S
    PROVE  \A n \in Nat : n \in S
<1> DEFINE missing == {n \in Nat : n \notin S}
<1> SUFFICES ASSUME missing # {} PROVE FALSE
  OBVIOUS
<1>1. PICK least \in missing : \A n \in missing : least <= n
  <2>1. missing \subseteq Nat
    OBVIOUS
  <2> HIDE DEF missing
  <2> QED
    BY <2>1, Least
<1>2. least # 0 /\ least - 1 \in Nat /\ (least - 1) + 1 = least
  BY <1>1
<1>3. least - 1 \in S
  BY <1>1, <1>2
<1> QED
  BY <1>1, <1>2, <1>3

-------------------------------------------------------------------------------
(***************************************************************************)
(* The variables_map: Occurrences.                                         *)
(***************************************************************************)

\* The recursive function of Occurrences over the first n arguments, of which those in
\* M are kept.
IsPushing(found, n, M) ==
    found = [i \in 0..n |->
                IF i = 0 THEN <<>>
                ELSE IF i \in M THEN Append(found[i - 1], i) ELSE found[i - 1]]

\* There is such a function.
LEMMA PushingExists ==
    ASSUME NEW M, NEW n \in Nat
    PROVE  \E found : IsPushing(found, n, M)
<1> DEFINE S == {k \in Nat : \E found : IsPushing(found, k, M)}
<1>1. 0 \in S
  <2> DEFINE found == [i \in 0..0 |-> <<>>]
  <2>1. IsPushing(found, 0, M)
    BY DEF IsPushing
  <2> QED
    BY <2>1
<1>2. ASSUME NEW k \in Nat, k \in S PROVE k + 1 \in S
  <2>1. PICK found : IsPushing(found, k, M)
    BY <1>2
  <2> DEFINE longer == [i \in 0..(k + 1) |->
                IF i = k + 1 THEN IF k + 1 \in M THEN Append(found[k], k + 1) ELSE found[k]
                ELSE found[i]]
  <2>2. ASSUME NEW i \in 0..(k + 1)
        PROVE  longer[i] = IF i = 0 THEN <<>>
                           ELSE IF i \in M THEN Append(longer[i - 1], i) ELSE longer[i - 1]
    <3>1. CASE i = k + 1
      BY <3>1
    <3>2. CASE i # k + 1
      <4>1. i \in 0..k /\ (i # 0 => i - 1 \in 0..(k + 1) /\ i - 1 # k + 1)
        BY <3>2
      <4>2. found[i] = IF i = 0 THEN <<>>
                       ELSE IF i \in M THEN Append(found[i - 1], i) ELSE found[i - 1]
        BY <2>1, <4>1 DEF IsPushing
      <4> QED
        BY <3>2, <4>1, <4>2
    <3> QED
      BY <3>1, <3>2
  <2>3. longer = [i \in 0..(k + 1) |-> longer[i]]
    OBVIOUS
  <2>4. IsPushing(longer, k + 1, M)
    <3> HIDE DEF longer
    <3> QED
      BY <2>2, <2>3 DEF IsPushing
  <2> QED
    BY <2>4
<1> HIDE DEF S
<1>3. n \in S
  BY <1>1, <1>2, Induction
<1> QED
  BY <1>3 DEF S

\* f enumerates the numbers of M up to n, each of them once and in order.
Enumerates(f, n, M) ==
    LET members == {i \in 1..n : i \in M} IN
    /\ f \in Seq(members)
    /\ {f[k] : k \in DOMAIN f} = members
    /\ Len(f) = Cardinality(members)
    /\ \A k \in DOMAIN f : Cardinality({i \in 1..f[k] : i \in M}) = k

\* What is pushed so far are the occurrences so far.
LEMMA PushingEnumerates ==
    ASSUME NEW M, NEW n \in Nat, NEW found, IsPushing(found, n, M)
    PROVE  \A i \in 0..n : Enumerates(found[i], i, M)
<1> DEFINE S == {i \in Nat : i \in 0..n => Enumerates(found[i], i, M)}
<1>1. 0 \in S
  <2>1. {i \in 1..0 : i \in M} = {} /\ Cardinality({}) = 0
    BY FS_EmptySet
  <2>2. found[0] = <<>>
    BY DEF IsPushing
  <2>3. <<>> \in Seq({}) /\ {<<>>[k] : k \in DOMAIN <<>>} = {} /\ Len(<<>>) = 0
        /\ DOMAIN <<>> = {}
    OBVIOUS
  <2>4. Enumerates(<<>>, 0, M)
    BY <2>1, <2>3 DEF Enumerates
  <2> QED
    BY <2>2, <2>4
<1>2. ASSUME NEW i \in Nat, i \in S PROVE i + 1 \in S
  <2> SUFFICES ASSUME i + 1 \in 0..n PROVE Enumerates(found[i + 1], i + 1, M)
    OBVIOUS
  <2> DEFINE before == {k \in 1..i : k \in M}
             after == {k \in 1..(i + 1) : k \in M}
             f == found[i]
  <2>1. i \in 0..n /\ Enumerates(f, i, M)
    BY <1>2
  <2>2. found[i + 1] = IF i + 1 \in M THEN Append(f, i + 1) ELSE f
    <3>1. i + 1 # 0 /\ (i + 1) - 1 = i
      OBVIOUS
    <3>2. found[i + 1] = IF i + 1 = 0 THEN <<>>
                         ELSE IF i + 1 \in M THEN Append(found[(i + 1) - 1], i + 1)
                         ELSE found[(i + 1) - 1]
      BY DEF IsPushing
    <3> QED
      BY <3>1, <3>2
  <2>3. /\ f \in Seq(before)
        /\ {f[k] : k \in DOMAIN f} = before
        /\ Len(f) = Cardinality(before)
        /\ \A k \in DOMAIN f : Cardinality({j \in 1..f[k] : j \in M}) = k
    BY <2>1 DEF Enumerates
  <2>4. CASE i + 1 \in M
    <3>1. after = before \cup {i + 1} /\ i + 1 \notin before
      BY <2>4
    <3>2. IsFiniteSet(before)
      <4>1. IsFiniteSet(1..i) /\ before \subseteq 1..i
        BY FS_Interval
      <4> QED
        BY <4>1, FS_Subset
    <3>3. Cardinality(after) = Cardinality(before) + 1
      BY <3>1, <3>2, FS_AddElement
    <3> HIDE DEF before, after, f
    <3> DEFINE g == Append(f, i + 1)
    <3>4. /\ g \in Seq(after) /\ Len(g) = Len(f) + 1
          /\ DOMAIN g = DOMAIN f \cup {Len(f) + 1}
          /\ \A k \in DOMAIN f : g[k] = f[k]
          /\ g[Len(f) + 1] = i + 1
      BY <2>3, <3>1
    <3> HIDE DEF g
    <3>5. {g[k] : k \in DOMAIN g} = after
      BY <2>3, <3>1, <3>4
    <3>6. ASSUME NEW k \in DOMAIN g PROVE Cardinality({j \in 1..g[k] : j \in M}) = k
      <4>1. CASE k \in DOMAIN f
        BY <2>3, <3>4, <4>1
      <4>2. CASE k = Len(f) + 1
        <5>1. {j \in 1..g[k] : j \in M} = after
          BY <3>4, <4>2 DEF after
        <5> QED
          BY <2>3, <3>3, <4>2, <5>1
      <4> QED
        BY <3>4, <4>1, <4>2
    <3>7. /\ g \in Seq(after) /\ {g[k] : k \in DOMAIN g} = after
          /\ Len(g) = Cardinality(after)
      BY <2>3, <3>3, <3>4, <3>5
    <3>8. Enumerates(g, i + 1, M)
      BY <3>6, <3>7, Zenon DEF Enumerates, after
    <3> QED
      BY <2>2, <2>4, <3>8 DEF f, g
  <2>5. CASE i + 1 \notin M
    <3>1. after = before
      BY <2>5
    <3> QED
      BY <2>2, <2>3, <2>5, <3>1 DEF Enumerates
  <2> QED
    BY <2>4, <2>5
<1> HIDE DEF S
<1>3. \A i \in Nat : i \in S
  BY <1>1, <1>2, Induction
<1> QED
  BY <1>3 DEF S

\* Where the options of a set occur.
Places(options) == {i \in DOMAIN args : Opt(i) \in options}

\* Occurrences lists the places of the options, each of them once and in order.
LEMMA OccurrencesListed ==
    ASSUME NEW A, args \in Seq(A), NEW options
    PROVE  /\ Occurrences(options) \in Seq(Places(options))
           /\ {Occurrences(options)[k] : k \in DOMAIN Occurrences(options)} = Places(options)
           /\ Len(Occurrences(options)) = Cardinality(Places(options))
           /\ \A k \in DOMAIN Occurrences(options) :
                Cardinality({j \in 1..Occurrences(options)[k] : j \in Places(options)}) = k
<1> DEFINE n == Len(args)
           M == Places(options)
           Found(found) == found = [i \in 0..n |->
                IF i = 0 THEN <<>>
                ELSE IF Opt(i) \in options THEN Append(found[i - 1], i) ELSE found[i - 1]]
           chosen == CHOOSE found : Found(found)
<1>1. n \in Nat /\ DOMAIN args = 1..n
  OBVIOUS
<1>2. ASSUME NEW found PROVE Found(found) <=> IsPushing(found, n, M)
  <2>1. \A i \in 0..n : i # 0 => (Opt(i) \in options <=> i \in M)
    BY <1>1 DEF Places
  <2>2. [i \in 0..n |->
                IF i = 0 THEN <<>>
                ELSE IF Opt(i) \in options THEN Append(found[i - 1], i) ELSE found[i - 1]]
        = [i \in 0..n |->
                IF i = 0 THEN <<>>
                ELSE IF i \in M THEN Append(found[i - 1], i) ELSE found[i - 1]]
    <3> HIDE DEF M, n
    <3> QED
      BY <2>1
  <2> QED
    BY <2>2 DEF IsPushing
<1>3. Occurrences(options) = chosen[n]
  BY DEF Occurrences
<1>4. IsPushing(chosen, n, M)
  <2>1. \E found : IsPushing(found, n, M)
    BY <1>1, PushingExists
  <2>2. \E found : Found(found)
    BY <1>2, <2>1
  <2>3. Found(chosen)
    <3> HIDE DEF Found
    <3> QED
      BY <2>2
  <2> HIDE DEF chosen
  <2> QED
    BY <1>2, <2>3
<1>5. Enumerates(chosen[n], n, M)
  <2> HIDE DEF chosen, M, n
  <2> QED
    BY <1>1, <1>4, PushingEnumerates
<1>6. {i \in 1..n : i \in M} = M
  BY <1>1 DEF Places
<1> HIDE DEF M, chosen, n
<1> QED
  BY <1>3, <1>5, <1>6 DEF Enumerates, M

-------------------------------------------------------------------------------
(***************************************************************************)
(* Payload.                                                                *)
(***************************************************************************)
Piece == [at : Nat, how : {"stripped", "encoded", "as_is"}]

\* The pieces come from the places of these options, one from each.
Holds(pieces, options) ==
    /\ pieces \in Seq(Piece)
    /\ {pieces[k].at : k \in DOMAIN pieces} = Places(options)
    /\ Len(pieces) = Cardinality(Places(options))

\* There are finitely many places.
LEMMA PlacesFinite ==
    ASSUME NEW A, args \in Seq(A), NEW options
    PROVE  IsFiniteSet(Places(options))
<1>1. IsFiniteSet(DOMAIN args)
  <2>1. DOMAIN args = 1..Len(args) /\ Len(args) \in Nat
    OBVIOUS
  <2> QED
    BY <2>1, FS_Interval
<1>2. Places(options) \subseteq DOMAIN args
  BY DEF Places
<1> QED
  BY <1>1, <1>2, FS_Subset

\* Every occurrence of an option gives a piece.
LEMMA PiecesHold ==
    ASSUME NEW A, args \in Seq(A), NEW o
    PROVE  Holds(Pieces(o), {o})
<1> DEFINE f == Of(o)
           p == Pieces(o)
<1>1. /\ f \in Seq(Places({o})) /\ {f[k] : k \in DOMAIN f} = Places({o})
      /\ Len(f) = Cardinality(Places({o}))
  BY OccurrencesListed DEF Of
<1>2. p = [k \in DOMAIN f |-> [at |-> f[k], how |-> How(f[k])]]
  BY DEF Pieces
<1>3. \A i : How(i) \in {"stripped", "encoded", "as_is"}
  BY DEF How
<1>4. Places({o}) \subseteq Nat
  BY DEF Places
<1> HIDE DEF f, p
<1>5. /\ DOMAIN f = 1..Len(f) /\ Len(f) \in Nat
      /\ \A k \in DOMAIN f : p[k] \in Piece /\ p[k].at = f[k]
  <2>1. DOMAIN f = 1..Len(f) /\ Len(f) \in Nat /\ \A k \in DOMAIN f : f[k] \in Nat
    <3>1. DOMAIN f = 1..Len(f) /\ Len(f) \in Nat
      BY <1>1
    <3>2. \A k \in DOMAIN f : f[k] \in Places({o})
      BY <1>1
    <3> QED
      BY <1>4, <3>1, <3>2
  <2>2. ASSUME NEW k \in DOMAIN f PROVE p[k] \in Piece /\ p[k].at = f[k]
    <3>1. p[k] = [at |-> f[k], how |-> How(f[k])]
      BY <1>2
    <3> QED
      BY <1>3, <2>1, <3>1 DEF Piece
  <2> QED
    BY <2>1, <2>2
<1>6. p \in Seq(Piece) /\ Len(p) = Len(f) /\ DOMAIN p = DOMAIN f
  BY <1>2, <1>5
<1>7. {p[k].at : k \in DOMAIN p} = {f[k] : k \in DOMAIN f}
  BY <1>5, <1>6
<1> QED
  BY <1>1, <1>6, <1>7 DEF Holds, p

\* Pieces of different options, one after the other.
LEMMA HoldTogether ==
    ASSUME NEW A, args \in Seq(A), NEW S, NEW T, S \cap T = {},
           NEW p, NEW q, Holds(p, S), Holds(q, T)
    PROVE  Holds(p \o q, S \cup T)
<1> DEFINE r == p \o q
<1>1. p \in Seq(Piece) /\ q \in Seq(Piece)
  BY DEF Holds
<1>2. /\ r \in Seq(Piece) /\ Len(r) = Len(p) + Len(q)
      /\ DOMAIN p = 1..Len(p) /\ DOMAIN q = 1..Len(q) /\ DOMAIN r = 1..(Len(p) + Len(q))
      /\ Len(p) \in Nat /\ Len(q) \in Nat
      /\ \A k \in DOMAIN p : r[k] = p[k]
      /\ \A k \in DOMAIN q : r[Len(p) + k] = q[k]
  BY <1>1
<1>3. /\ Places(S) \cup Places(T) = Places(S \cup T)
      /\ Places(S) \cap Places(T) = {}
  BY DEF Places
<1>4. Cardinality(Places(S \cup T)) = Cardinality(Places(S)) + Cardinality(Places(T))
  <2>1. IsFiniteSet(Places(S)) /\ IsFiniteSet(Places(T))
    BY PlacesFinite
  <2>2. Cardinality(Places(S)) \in Nat /\ Cardinality(Places(T)) \in Nat
    BY <2>1, FS_CardinalityType
  <2>3. Cardinality(Places(S) \cap Places(T)) = 0
    BY <1>3, FS_EmptySet
  <2>4. Cardinality(Places(S) \cup Places(T))
        = Cardinality(Places(S)) + Cardinality(Places(T)) - Cardinality(Places(S) \cap Places(T))
    BY <2>1, FS_Union
  <2>5. Cardinality(Places(S \cup T)) = Cardinality(Places(S) \cup Places(T))
    BY <1>3, Zenon
  <2> QED
    BY <2>2, <2>3, <2>4, <2>5
<1> HIDE DEF r
<1>5. \A k \in DOMAIN r : k \in DOMAIN p \/ (k - Len(p) \in DOMAIN q /\ k = Len(p) + (k - Len(p)))
  BY <1>2
<1>6. \A k \in DOMAIN q : Len(p) + k \in DOMAIN r
  BY <1>2
<1>7. \A k \in DOMAIN p : k \in DOMAIN r
  BY <1>2
<1>8. {r[k].at : k \in DOMAIN r}
        = {p[k].at : k \in DOMAIN p} \cup {q[k].at : k \in DOMAIN q}
  <2>1. ASSUME NEW k \in DOMAIN r
        PROVE  r[k].at \in {p[j].at : j \in DOMAIN p} \cup {q[j].at : j \in DOMAIN q}
    BY <1>2, <1>5
  <2>2. ASSUME NEW k \in DOMAIN p PROVE p[k].at \in {r[j].at : j \in DOMAIN r}
    BY <1>2, <1>7
  <2>3. ASSUME NEW k \in DOMAIN q PROVE q[k].at \in {r[j].at : j \in DOMAIN r}
    BY <1>2, <1>6
  <2> QED
    BY <2>1, <2>2, <2>3
<1> QED
  BY <1>2, <1>3, <1>4, <1>8 DEF Holds, r

\* All of --data and its relatives.
LEMMA DataHolds ==
    ASSUME NEW A, args \in Seq(A)
    PROVE  Holds(data, DataOptions)
<1> DEFINE p1 == Pieces("data")
           p2 == p1 \o Pieces("data-ascii")
           p3 == p2 \o Pieces("data-binary")
           p4 == p3 \o Pieces("data-raw")
           o2 == {"data"} \cup {"data-ascii"}
           o3 == o2 \cup {"data-binary"}
           o4 == o3 \cup {"data-raw"}
<1>1. \A o : Holds(Pieces(o), {o})
  BY PiecesHold
<1>2. /\ {"data"} \cap {"data-ascii"} = {} /\ o2 \cap {"data-binary"} = {}
      /\ o3 \cap {"data-raw"} = {} /\ o4 \cap {"data-urlencode"} = {}
  OBVIOUS
<1>3. Holds(p2, o2)
  BY <1>1, <1>2, HoldTogether, Zenon
<1>4. Holds(p3, o3)
  <2> HIDE DEF p2, o2
  <2> QED
    BY <1>1, <1>2, <1>3, HoldTogether, Zenon
<1>5. Holds(p4, o4)
  <2> HIDE DEF p3, o3
  <2> QED
    BY <1>1, <1>2, <1>4, HoldTogether, Zenon
<1>6. Holds(p4 \o Pieces("data-urlencode"), o4 \cup {"data-urlencode"})
  <2> HIDE DEF p4, o4
  <2> QED
    BY <1>1, <1>2, <1>5, HoldTogether, Zenon
<1>7. o4 \cup {"data-urlencode"} = DataOptions
  BY DEF DataOptions
<1>8. data = p4 \o Pieces("data-urlencode")
  BY DEF data
<1> HIDE DEF p4, o4
<1> QED
  BY <1>6, <1>7, <1>8, Zenon

\* What is accepted has one body at most.
LEMMA OneBody ==
    ASSUME ~ Refused, NEW a \in Bodies, NEW b \in Bodies
    PROVE  a = b
<1> SUFFICES ASSUME a # b PROVE FALSE
  OBVIOUS
<1>1. Cardinality({a, b}) = 2
  <2>1. IsFiniteSet({a}) /\ Cardinality({a}) = 1
    BY FS_Singleton
  <2>2. {a, b} = {a} \cup {b} /\ b \notin {a}
    OBVIOUS
  <2>3. Cardinality({a} \cup {b}) = Cardinality({a}) + 1
    BY <2>1, <2>2, FS_AddElement
  <2> QED
    BY <2>1, <2>2, <2>3
<1>2. IsFiniteSet(Bodies)
  <2>1. Bodies \subseteq {"form", "json"} \cup {"upload-file", "data"}
    BY DEF Bodies
  <2>2. IsFiniteSet({"form", "json"} \cup {"upload-file", "data"})
    <3>1. /\ IsFiniteSet({"form"}) /\ IsFiniteSet({"json"})
          /\ IsFiniteSet({"upload-file"}) /\ IsFiniteSet({"data"})
      BY FS_Singleton
    <3>2. /\ IsFiniteSet({"form"} \cup {"json"})
          /\ IsFiniteSet({"upload-file"} \cup {"data"})
      BY <3>1, FS_Union
    <3>3. /\ {"form"} \cup {"json"} = {"form", "json"}
          /\ {"upload-file"} \cup {"data"} = {"upload-file", "data"}
      OBVIOUS
    <3> QED
      BY <3>2, <3>3, FS_Union
  <2> QED
    BY <2>1, <2>2, FS_Subset
<1>3. {a, b} \subseteq Bodies
  OBVIOUS
<1>4. Cardinality({a, b}) <= Cardinality(Bodies) /\ Cardinality(Bodies) \in Nat
  BY <1>2, <1>3, FS_Subset, FS_CardinalityType
<1>5. ~ (Cardinality(Bodies) > 1)
  BY DEF Refused
<1> QED
  BY <1>1, <1>4, <1>5

\* The options whose values are transferred.
PayloadOptions == DataOptions \cup {"json", "url-query"}

\* Nothing in front of a sequence.
LEMMA NothingInFront ==
    ASSUME NEW S, NEW q \in Seq(S)
    PROVE  <<>> \o q = q
<1>1. <<>> \o q \in Seq(S) /\ Len(<<>> \o q) = Len(q)
  OBVIOUS
<1>2. \A k \in 1..Len(q) : (<<>> \o q)[k] = q[k]
  OBVIOUS
<1> QED
  BY <1>1, <1>2

\* No piece of what is accepted is lost or used twice.
LEMMA AllPieces ==
    ASSUME NEW A, args \in Seq(A), ~ Refused
    PROVE  /\ Holds(msg.pieces \o query, PayloadOptions)
           /\ msg.type # "none" => ~ contains("upload-file")
<1> DEFINE uq == Pieces("url-query")
           js == Pieces("json")
<1>1. Holds(data, DataOptions) /\ Holds(js, {"json"}) /\ Holds(uq, {"url-query"})
  BY DataHolds, PiecesHold
<1>2. data \in Seq(Piece) /\ js \in Seq(Piece) /\ uq \in Seq(Piece)
  BY <1>1 DEF Holds
<1>3. /\ contains("json") => "json" \in Bodies
      /\ contains("upload-file") => "upload-file" \in Bodies
      /\ data # <<>> => "data" \in Bodies
  BY DEF Bodies
<1>4. /\ ~ (contains("json") /\ data # <<>>)
      /\ ~ (contains("json") /\ contains("upload-file"))
      /\ ~ (data # <<>> /\ contains("upload-file"))
  BY <1>3, OneBody
<1>5. /\ msg.type # "none" => contains("json") \/ data # <<>>
      /\ msg.pieces = IF contains("json") THEN js
                      ELSE IF data # <<>> /\ ~ contains("get") THEN data ELSE <<>>
  BY DEF msg
<1>6. query = (IF contains("get") THEN data ELSE <<>>) \o uq
  BY DEF query
<1> HIDE DEF uq, js
<1>7. CASE contains("json")
  <2>1. msg.pieces \o query = js \o uq
    <3>1. query = <<>> \o uq
      BY <1>4, <1>6, <1>7
    <3>2. query = uq
      BY <1>2, <3>1, NothingInFront
    <3> QED
      BY <1>5, <1>7, <3>2
  <2>2. Holds(js \o uq, {"json"} \cup {"url-query"})
    <3>1. {"json"} \cap {"url-query"} = {}
      OBVIOUS
    <3> QED
      BY <1>1, <3>1, HoldTogether, Zenon
  <2>3. Places(DataOptions) = {}
    BY <1>1, <1>4, <1>7 DEF Holds
  <2>4. Places({"json"} \cup {"url-query"}) = Places(PayloadOptions)
    BY <2>3 DEF Places, PayloadOptions
  <2> QED
    BY <1>4, <1>7, <2>1, <2>2, <2>4 DEF Holds
<1>8. CASE ~ contains("json")
  <2>1. msg.pieces \o query = data \o uq
    <3>1. CASE contains("get")
      <4>1. msg.pieces = <<>> /\ query = data \o uq
        BY <1>5, <1>6, <1>8, <3>1
      <4>2. data \o uq \in Seq(Piece)
        BY <1>2
      <4>3. <<>> \o (data \o uq) = data \o uq
        <5> DEFINE both == data \o uq
        <5> HIDE DEF both
        <5>1. <<>> \o both = both
          BY <4>2, NothingInFront DEF both
        <5> QED
          BY <5>1 DEF both
      <4> QED
        BY <4>1, <4>3, Zenon
    <3>2. CASE ~ contains("get")
      <4>1. msg.pieces = data /\ query = <<>> \o uq
        BY <1>5, <1>6, <1>8, <3>2
      <4>2. query = uq
        BY <1>2, <4>1, NothingInFront
      <4> QED
        BY <4>1, <4>2
    <3> QED
      BY <3>1, <3>2
  <2>2. Holds(data \o uq, DataOptions \cup {"url-query"})
    <3>1. DataOptions \cap {"url-query"} = {}
      BY DEF DataOptions
    <3> QED
      BY <1>1, <3>1, HoldTogether, Zenon
  <2>3. Places({"json"}) = {}
    BY <1>8 DEF Places, contains
  <2>4. Places(DataOptions \cup {"url-query"}) = Places(PayloadOptions)
    BY <2>3 DEF Places, PayloadOptions
  <2> QED
    BY <1>4, <1>5, <1>8, <2>1, <2>2, <2>4 DEF Holds
<1> QED
  BY <1>7, <1>8

-------------------------------------------------------------------------------
(***************************************************************************)
(* The invariants.                                                         *)
(***************************************************************************)
Given == {Arguments[name] : name \in DOMAIN Arguments}

\* The command line is what was given.
LEMMA LineFixed == Spec => [](args \in Seq(Given))
<1>1. Init => args \in Seq(Given)
  <2> SUFFICES ASSUME NEW line \in CommandLines,
                      args = [i \in DOMAIN line |-> Arguments[line[i]]]
               PROVE  args \in Seq(Given)
    BY DEF Init
  <2>1. line \in Seq(DOMAIN Arguments)
    BY CommandLinesAssumption
  <2>2. DOMAIN line = 1..Len(line) /\ Len(line) \in Nat
    BY <2>1
  <2>3. \A i \in DOMAIN line : Arguments[line[i]] \in Given
    BY <2>1 DEF Given
  <2> QED
    BY <2>2, <2>3
<1>2. args \in Seq(Given) /\ [Next]_vars => (args \in Seq(Given))'
  BY DEF Next, Refuse, Accept, Return, Throw, Descend, Retreat, NextPattern, Exhausted, vars
<1> QED
  BY <1>1, <1>2, PTL DEF Spec

\* Only Accept makes the configuration; every other step keeps it.
LEMMA KeepsConfiguration ==
    ASSUME [Next]_vars, ~ Accept, pc' = "accepted"
    PROVE  pc = "accepted" /\ UNCHANGED <<args, oc, tls>>
BY DEF Next, Refuse, Return, Throw, Descend, Retreat, NextPattern, Exhausted, vars

\* Every piece of --data, --json and --url-query on an accepted command line is stored
\* exactly once, for all command lines that parse_args can be given.
THEOREM PayloadStored == Spec => []PayloadKept
<1>1. Init => PayloadKept
  BY DEF Init, PayloadKept
<1>2. ASSUME args \in Seq(Given), PayloadKept, [Next]_vars
      PROVE  PayloadKept'
  <2> SUFFICES ASSUME pc' = "accepted" PROVE PayloadKept'
    BY DEF PayloadKept
  <2>1. CASE Accept
    <3>1. args' = args /\ oc'.msg = msg /\ oc'.query = query
      BY <2>1 DEF Accept
    <3>2. Holds(msg.pieces \o query, PayloadOptions) /\ (msg.type # "none" => ~ contains("upload-file"))
      BY <1>2, <2>1, AllPieces DEF Accept
    <3> DEFINE used == msg.pieces \o query
    <3> HIDE DEF used
    <3>3. {used[k].at : k \in DOMAIN used} = Places(PayloadOptions)
          /\ Len(used) = Cardinality(Places(PayloadOptions))
      BY <3>2 DEF Holds, used
    <3>4. oc'.msg.pieces \o oc'.query = used
      BY <3>1 DEF used
    <3> QED
      BY <3>1, <3>2, <3>3, <3>4 DEF PayloadKept, Places, PayloadOptions, Opt, contains
  <2>2. CASE ~ Accept
    <3>1. pc = "accepted" /\ UNCHANGED <<args, oc, tls>>
      BY <1>2, <2>2, KeepsConfiguration
    <3> DEFINE used == oc.msg.pieces \o oc.query
    <3>2. /\ {used[k].at : k \in DOMAIN used} = Places(PayloadOptions)
          /\ Len(used) = Cardinality(Places(PayloadOptions))
          /\ oc.msg.type # "none" => ~ contains("upload-file")
      BY <1>2, <3>1 DEF PayloadKept, Places, PayloadOptions
    <3>3. oc'.msg.pieces \o oc'.query = used
      BY <3>1
    <3> HIDE DEF used
    <3> QED
      BY <3>1, <3>2, <3>3 DEF PayloadKept, Places, PayloadOptions, Opt, contains
  <2> QED
    BY <2>1, <2>2
<1> QED
  BY <1>1, <1>2, LineFixed, PTL DEF Spec

-------------------------------------------------------------------------------
(***************************************************************************)
(* Sequences.                                                              *)
(***************************************************************************)

\* Concatenation under a name of its own: facts about it are then cited and not computed.
Cat(x, y) == x \o y

\* Three sequences in a row.
LEMMA CatAssociative ==
    ASSUME NEW S
    PROVE  \A x, y, z \in Seq(S) : Cat(Cat(x, y), z) = Cat(x, Cat(y, z))
BY ConcatAssociative DEF Cat

\* The empty sequence on either side.
LEMMA CatEmpty ==
    ASSUME NEW S
    PROVE  \A x \in Seq(S) : Cat(x, <<>>) = x /\ Cat(<<>>, x) = x
BY ConcatEmptySeq DEF Cat

\* Two sequences in a row are one.
LEMMA CatType ==
    ASSUME NEW S
    PROVE  \A x, y \in Seq(S) : Cat(x, y) \in Seq(S)
BY ConcatProperties DEF Cat

\* The recursive function of FlattenSeq over the first n of the sequences.
IsFlattening(flatten, seqs, n) ==
    flatten = [i \in 1..n |-> IF i = 1 THEN seqs[i] ELSE flatten[i - 1] \o seqs[i]]

\* There is such a function.
LEMMA FlatteningExists ==
    ASSUME NEW seqs, NEW n \in Nat
    PROVE  \E flatten : IsFlattening(flatten, seqs, n)
<1> DEFINE S == {k \in Nat : \E flatten : IsFlattening(flatten, seqs, k)}
<1>1. 0 \in S
  <2> DEFINE flatten == [i \in 1..0 |-> <<>>]
  <2>1. IsFlattening(flatten, seqs, 0)
    BY DEF IsFlattening
  <2> QED
    BY <2>1
<1>2. ASSUME NEW k \in Nat, k \in S PROVE k + 1 \in S
  <2>1. PICK flatten : IsFlattening(flatten, seqs, k)
    BY <1>2
  <2> DEFINE longer == [i \in 1..(k + 1) |->
                IF i # k + 1 THEN flatten[i]
                ELSE IF i = 1 THEN seqs[i] ELSE flatten[i - 1] \o seqs[i]]
  <2>2. ASSUME NEW i \in 1..(k + 1)
        PROVE  longer[i] = IF i = 1 THEN seqs[i] ELSE longer[i - 1] \o seqs[i]
    <3>1. i # 1 => i - 1 \in 1..(k + 1) /\ i - 1 # k + 1 /\ longer[i - 1] = flatten[i - 1]
      OBVIOUS
    <3>2. CASE i = k + 1
      BY <3>1, <3>2
    <3>3. CASE i # k + 1
      <4>1. i \in 1..k
        BY <3>3
      <4>2. flatten[i] = IF i = 1 THEN seqs[i] ELSE flatten[i - 1] \o seqs[i]
        BY <2>1, <4>1 DEF IsFlattening
      <4> QED
        BY <3>1, <3>3, <4>2
    <3> QED
      BY <3>2, <3>3
  <2>3. longer = [i \in 1..(k + 1) |-> longer[i]]
    OBVIOUS
  <2>4. IsFlattening(longer, seqs, k + 1)
    <3> HIDE DEF longer
    <3> QED
      BY <2>2, <2>3 DEF IsFlattening
  <2> QED
    BY <2>4
<1> HIDE DEF S
<1>3. n \in S
  BY <1>1, <1>2, Induction
<1> QED
  BY <1>3 DEF S

\* FlattenSeq is computed by such a function.
LEMMA FlattenSeqDef ==
    ASSUME NEW S, NEW seqs \in Seq(S), seqs # <<>>
    PROVE  \E flatten :
            IsFlattening(flatten, seqs, Len(seqs)) /\ FlattenSeq(seqs) = flatten[Len(seqs)]
<1> DEFINE n == Len(seqs)
           Is(flatten) == flatten = [i \in 1..n |->
                IF i = 1 THEN seqs[i] ELSE flatten[i - 1] \o seqs[i]]
           chosen == CHOOSE flatten : Is(flatten)
<1>1. n \in Nat /\ n # 0
  OBVIOUS
<1>2. FlattenSeq(seqs) = chosen[n]
  BY <1>1 DEF FlattenSeq
<1>3. \E flatten : Is(flatten)
  BY <1>1, FlatteningExists DEF IsFlattening
<1>4. Is(chosen)
  <2> HIDE DEF Is
  <2> QED
    BY <1>3
<1>5. IsFlattening(chosen, seqs, n)
  <2> HIDE DEF chosen
  <2> QED
    BY <1>4 DEF IsFlattening
<1> HIDE DEF chosen
<1> QED
  BY <1>2, <1>5

\* Its values are sequences.
LEMMA FlatteningType ==
    ASSUME NEW S, NEW seqs \in Seq(Seq(S)), NEW f, IsFlattening(f, seqs, Len(seqs))
    PROVE  \A i \in 1..Len(seqs) : f[i] \in Seq(S)
<1> DEFINE T == {i \in Nat : i \in 1..Len(seqs) => f[i] \in Seq(S)}
<1>1. 0 \in T
  OBVIOUS
<1>2. ASSUME NEW i \in Nat, i \in T PROVE i + 1 \in T
  <2> SUFFICES ASSUME i + 1 \in 1..Len(seqs) PROVE f[i + 1] \in Seq(S)
    OBVIOUS
  <2>1. f[i + 1] = IF i + 1 = 1 THEN seqs[i + 1] ELSE f[(i + 1) - 1] \o seqs[i + 1]
    BY DEF IsFlattening
  <2>2. seqs[i + 1] \in Seq(S)
    BY ElementOfSeq
  <2>3. CASE i = 0
    BY <2>1, <2>2, <2>3
  <2>4. CASE i # 0
    <3>1. f[i] \in Seq(S) /\ (i + 1) - 1 = i /\ i + 1 # 1
      BY <1>2, <2>4
    <3> QED
      BY <2>1, <2>2, <3>1, ConcatProperties
  <2> QED
    BY <2>3, <2>4
<1> HIDE DEF T
<1>3. \A i \in Nat : i \in T
  BY <1>1, <1>2, Induction
<1> QED
  BY <1>3 DEF T

\* Sequences in a row are one.
LEMMA FlattenSeqType ==
    ASSUME NEW S, NEW seqs \in Seq(Seq(S))
    PROVE  FlattenSeq(seqs) \in Seq(S)
<1>1. CASE seqs = <<>>
  <2>1. FlattenSeq(seqs) = <<>>
    BY <1>1 DEF FlattenSeq
  <2> QED
    BY <2>1
<1>2. CASE seqs # <<>>
  <2>1. PICK f : IsFlattening(f, seqs, Len(seqs)) /\ FlattenSeq(seqs) = f[Len(seqs)]
    BY <1>2, FlattenSeqDef
  <2>2. Len(seqs) \in 1..Len(seqs)
    BY <1>2
  <2> QED
    BY <2>1, <2>2, FlatteningType
<1> QED
  BY <1>1, <1>2

\* Nothing, and a sequence in front of others.
LEMMA FlattenFront ==
    ASSUME NEW S, NEW a \in Seq(S), NEW t \in Seq(Seq(S)), NEW s \in Seq(Seq(S)),
           Len(s) = Len(t) + 1, s[1] = a, \A i \in 1..Len(t) : s[i + 1] = t[i]
    PROVE  FlattenSeq(s) = Cat(a, FlattenSeq(t))
<1>0. Len(s) \in Nat /\ Len(t) \in Nat /\ s # <<>>
  OBVIOUS
<1>1. PICK f : IsFlattening(f, s, Len(s)) /\ FlattenSeq(s) = f[Len(s)]
  BY <1>0, FlattenSeqDef
<1>2. f[1] = a
  BY <1>0, <1>1 DEF IsFlattening
<1>3. CASE t = <<>>
  <2>1. FlattenSeq(t) = <<>>
    BY <1>3 DEF FlattenSeq
  <2>2. a \o <<>> = a
    BY ConcatEmptySeq
  <2> QED
    BY <1>1, <1>2, <1>3, <2>1, <2>2 DEF Cat
<1>4. CASE t # <<>>
  <2>1. PICK g : IsFlattening(g, t, Len(t)) /\ FlattenSeq(t) = g[Len(t)]
    BY <1>4, FlattenSeqDef
  <2>2. \A i \in 1..Len(t) : g[i] \in Seq(S)
    BY <2>1, FlatteningType
  <2> DEFINE Follows(i) == f[i + 1] = a \o g[i]
             T == {i \in Nat : i \in 1..Len(t) => Follows(i)}
  <2> HIDE DEF Follows
  <2>3. 0 \in T
    OBVIOUS
  <2>4. ASSUME NEW i \in Nat, i \in T PROVE i + 1 \in T
    <3> SUFFICES ASSUME i + 1 \in 1..Len(t) PROVE Follows(i + 1)
      OBVIOUS
    <3> USE DEF Follows
    <3> DEFINE next == t[i + 1]
               before == g[i]
    <3>1. /\ (i + 1) + 1 \in 1..Len(s) /\ (i + 1) + 1 # 1 /\ ((i + 1) + 1) - 1 = i + 1
          /\ (i + 1) - 1 = i
      BY <1>0
    <3>2. f[(i + 1) + 1] = f[i + 1] \o s[(i + 1) + 1]
      BY <1>1, <3>1 DEF IsFlattening
    <3>3. s[(i + 1) + 1] = next /\ next \in Seq(S)
      BY ElementOfSeq
    <3>4. g[i + 1] = IF i + 1 = 1 THEN next ELSE before \o next
      BY <2>1, <3>1 DEF IsFlattening
    <3>5. CASE i = 0
      <4>1. i + 1 = 1
        BY <3>5
      <4>2. g[i + 1] = next
        BY <3>4, <4>1, Zenon
      <4> QED
        BY <1>2, <3>2, <3>3, <4>1, <4>2, Zenon
    <3>6. CASE i # 0
      <4>1. i \in 1..Len(t) /\ i + 1 # 1
        BY <3>6
      <4>2. f[i + 1] = a \o before /\ before \in Seq(S)
        BY <2>2, <2>4, <4>1
      <4>3. g[i + 1] = before \o next
        BY <3>4, <4>1, Zenon
      <4> HIDE DEF before, next
      <4>4. (a \o before) \o next = a \o (before \o next)
        <5>1. Cat(Cat(a, before), next) = Cat(a, Cat(before, next))
          BY <3>3, <4>2, CatAssociative
        <5> QED
          BY <5>1, Zenon DEF Cat
      <4> QED
        BY <3>2, <3>3, <4>2, <4>3, <4>4, Zenon
    <3> QED
      BY <3>5, <3>6
  <2> HIDE DEF T
  <2>5. \A i \in Nat : i \in T
    BY <2>3, <2>4, Induction
  <2>6. Len(t) \in 1..Len(t)
    BY <1>0, <1>4
  <2>7. Follows(Len(t))
    BY <1>0, <2>5, <2>6 DEF T
  <2> QED
    BY <1>1, <2>1, <2>7, Zenon DEF Cat, Follows
<1> QED
  BY <1>3, <1>4

-------------------------------------------------------------------------------
(***************************************************************************)
(* Combinations.                                                           *)
(***************************************************************************)

\* What strings are put together from.
Symbol ==
    {Text(s) : s \in STRING} \cup {Number(n, w) : n \in Nat, w \in Nat}
    \cup {Character(c) : c \in Int}

Combo == [result : Seq(Symbol), tokens : Seq(Symbol)]

Token(kind, v) == IF kind = "static" THEN <<>> ELSE <<v>>

\* A token is a sequence of one symbol or of none.
LEMMA TokenType ==
    ASSUME NEW kind, NEW v \in Symbol
    PROVE  Token(kind, v) \in Seq(Symbol)
BY DEF Token

\* A value in front of a combination makes a combination.
LEMMA PrependType ==
    ASSUME NEW kind, NEW v \in Symbol, NEW c \in Combo
    PROVE  /\ Prepend(kind, v, c) \in Combo
           /\ Prepend(kind, v, c).result = Cat(<<v>>, c.result)
           /\ Prepend(kind, v, c).tokens = Cat(Token(kind, v), c.tokens)
<1>1. c.result \in Seq(Symbol) /\ c.tokens \in Seq(Symbol)
  BY DEF Combo
<1>2. Prepend(kind, v, c)
        = [result |-> Cat(<<v>>, c.result), tokens |-> Cat(Token(kind, v), c.tokens)]
  BY Zenon DEF Prepend, Cat, Token
<1>3. <<v>> \in Seq(Symbol) /\ Token(kind, v) \in Seq(Symbol)
  BY TokenType
<1>4. Cat(<<v>>, c.result) \in Seq(Symbol) /\ Cat(Token(kind, v), c.tokens) \in Seq(Symbol)
  BY <1>1, <1>3, CatType
<1> QED
  BY <1>2, <1>4 DEF Combo

\* One value in front of all the combinations.
Row(kind, v, rest) == [n \in DOMAIN rest |-> Prepend(kind, v, rest[n])]

\* A row is a sequence of combinations.
LEMMA RowType ==
    ASSUME NEW kind, NEW v \in Symbol, NEW rest \in Seq(Combo)
    PROVE  Row(kind, v, rest) \in Seq(Combo) /\ Len(Row(kind, v, rest)) = Len(rest)
<1>1. ASSUME NEW n \in DOMAIN rest PROVE Prepend(kind, v, rest[n]) \in Combo
  <2>1. rest[n] \in Combo
    OBVIOUS
  <2> QED
    BY <2>1, PrependType
<1>2. DOMAIN rest = 1..Len(rest) /\ Len(rest) \in Nat
  OBVIOUS
<1> QED
  BY <1>1, <1>2 DEF Row

\* One row for each value.
Rows(kind, values, rest) == [j \in DOMAIN values |-> Row(kind, values[j], rest)]

\* The rows are sequences of combinations.
LEMMA RowsType ==
    ASSUME NEW kind, NEW values \in Seq(Symbol), NEW rest \in Seq(Combo)
    PROVE  /\ Rows(kind, values, rest) \in Seq(Seq(Combo))
           /\ Len(Rows(kind, values, rest)) = Len(values)
<1>1. \A j \in DOMAIN values : Row(kind, values[j], rest) \in Seq(Combo)
  BY RowType
<1>2. DOMAIN values = 1..Len(values) /\ Len(values) \in Nat
  OBVIOUS
<1> QED
  BY <1>1, <1>2 DEF Rows

\* The product is the rows, one after the other.
LEMMA ProductDef ==
    ASSUME NEW kind, NEW values, NEW rest
    PROVE  Product(kind, values, rest) = FlattenSeq(Rows(kind, values, rest))
BY DEF Product, Rows, Row

\* The product is a sequence of combinations.
LEMMA ProductType ==
    ASSUME NEW kind, NEW values \in Seq(Symbol), NEW rest \in Seq(Combo)
    PROVE  Product(kind, values, rest) \in Seq(Combo)
BY RowsType, ProductDef, FlattenSeqType

\* Without a value there is no combination.
LEMMA ProductNone ==
    ASSUME NEW kind, NEW rest
    PROVE  Product(kind, <<>>, rest) = <<>>
<1>1. Rows(kind, <<>>, rest) = <<>>
  BY DEF Rows
<1>2. FlattenSeq(<<>>) = <<>>
  BY DEF FlattenSeq
<1> QED
  BY <1>1, <1>2, ProductDef

\* The combinations of the first value come first.
LEMMA ProductFront ==
    ASSUME NEW kind, NEW values \in Seq(Symbol), NEW others \in Seq(Symbol),
           NEW rest \in Seq(Combo),
           Len(values) = Len(others) + 1, \A j \in 1..Len(others) : values[j + 1] = others[j]
    PROVE  Product(kind, values, rest)
            = Cat(Row(kind, values[1], rest), Product(kind, others, rest))
<1> DEFINE s == Rows(kind, values, rest)
           t == Rows(kind, others, rest)
           a == Row(kind, values[1], rest)
<1>1. s \in Seq(Seq(Combo)) /\ t \in Seq(Seq(Combo)) /\ Len(s) = Len(values) /\ Len(t) = Len(others)
  BY RowsType
<1>2. 1 \in DOMAIN values /\ DOMAIN values = 1..Len(values) /\ DOMAIN others = 1..Len(others)
      /\ Len(others) \in Nat
  OBVIOUS
<1>3. s[1] = a /\ a \in Seq(Combo)
  BY <1>2, RowType DEF Rows
<1>4. \A j \in 1..Len(t) : s[j + 1] = t[j]
  BY <1>1, <1>2 DEF Rows
<1>5. Product(kind, values, rest) = FlattenSeq(s) /\ Product(kind, others, rest) = FlattenSeq(t)
  BY ProductDef
<1> HIDE DEF s, t, a
<1>6. FlattenSeq(s) = Cat(a, FlattenSeq(t))
  BY <1>1, <1>3, <1>4, FlattenFront
<1> QED
  BY <1>5, <1>6 DEF a

\* The combination of no generators.
Nothing == [result |-> <<>>, tokens |-> <<>>]

\* It is a combination.
LEMMA NothingType == <<Nothing>> \in Seq(Combo)
BY DEF Nothing, Combo

\* The recursive function of Enumeration over the last n generators.
IsCombining(f, gs, n) ==
    f = [i \in 0..n |->
            IF i = 0 THEN <<Nothing>>
            ELSE Product(gs[Len(gs) - i + 1].kind, Values(gs[Len(gs) - i + 1]), f[i - 1])]

\* There is such a function.
LEMMA CombiningExists ==
    ASSUME NEW gs, NEW n \in Nat
    PROVE  \E f : IsCombining(f, gs, n)
<1> DEFINE S == {k \in Nat : \E f : IsCombining(f, gs, k)}
           Step(i, c) == Product(gs[Len(gs) - i + 1].kind, Values(gs[Len(gs) - i + 1]), c)
<1>0. ASSUME NEW f, NEW k
      PROVE  IsCombining(f, gs, k) <=>
                f = [i \in 0..k |-> IF i = 0 THEN <<Nothing>> ELSE Step(i, f[i - 1])]
  BY DEF IsCombining
<1> HIDE DEF Step
<1>1. 0 \in S
  <2> DEFINE f == [i \in 0..0 |-> <<Nothing>>]
  <2>1. f = [i \in 0..0 |-> IF i = 0 THEN <<Nothing>> ELSE Step(i, f[i - 1])]
    OBVIOUS
  <2> HIDE DEF f
  <2> QED
    BY <1>0, <2>1
<1>2. ASSUME NEW k \in Nat, k \in S PROVE k + 1 \in S
  <2>1. PICK f : f = [i \in 0..k |-> IF i = 0 THEN <<Nothing>> ELSE Step(i, f[i - 1])]
    BY <1>0, <1>2
  <2> DEFINE g == [i \in 0..(k + 1) |-> IF i # k + 1 THEN f[i] ELSE Step(i, f[i - 1])]
  <2>2. ASSUME NEW i \in 0..(k + 1)
        PROVE  g[i] = IF i = 0 THEN <<Nothing>> ELSE Step(i, g[i - 1])
    <3>1. i # 0 => i - 1 \in 0..(k + 1) /\ i - 1 # k + 1 /\ g[i - 1] = f[i - 1]
      OBVIOUS
    <3>2. CASE i = k + 1
      BY <3>1, <3>2
    <3>3. CASE i # k + 1
      <4>1. i \in 0..k
        BY <3>3
      <4>2. f[i] = IF i = 0 THEN <<Nothing>> ELSE Step(i, f[i - 1])
        BY <2>1, <4>1
      <4> QED
        BY <3>1, <3>3, <4>2
    <3> QED
      BY <3>2, <3>3
  <2>3. g = [i \in 0..(k + 1) |-> g[i]]
    OBVIOUS
  <2>4. g = [i \in 0..(k + 1) |-> IF i = 0 THEN <<Nothing>> ELSE Step(i, g[i - 1])]
    <3> HIDE DEF g
    <3> QED
      BY <2>2, <2>3
  <2>5. IsCombining(g, gs, k + 1)
    <3> HIDE DEF g
    <3> QED
      BY <1>0, <2>4
  <2> QED
    BY <2>5
<1> HIDE DEF S
<1>3. n \in S
  BY <1>1, <1>2, Induction
<1> QED
  BY <1>3 DEF S

\* Enumeration is computed by such a function.
LEMMA EnumerationDef ==
    ASSUME NEW G, NEW gs \in Seq(G)
    PROVE  \E f : IsCombining(f, gs, Len(gs)) /\ Enumeration(gs) = f[Len(gs)]
<1> DEFINE n == Len(gs)
           Is(f) == f = [i \in 0..n |->
                IF i = 0 THEN <<[result |-> <<>>, tokens |-> <<>>]>>
                ELSE Product(gs[Len(gs) - i + 1].kind, Values(gs[Len(gs) - i + 1]), f[i - 1])]
           chosen == CHOOSE f : Is(f)
<1>1. n \in Nat
  OBVIOUS
<1>2. Enumeration(gs) = chosen[n]
  BY DEF Enumeration
<1>3. \E f : Is(f)
  BY <1>1, CombiningExists DEF IsCombining, Nothing
<1>4. Is(chosen)
  <2> HIDE DEF Is
  <2> QED
    BY <1>3
<1>5. IsCombining(chosen, gs, n)
  <2> HIDE DEF chosen
  <2> QED
    BY <1>4 DEF IsCombining, Nothing
<1> HIDE DEF chosen
<1> QED
  BY <1>2, <1>5

\* Generators whose values are symbols.
LEMMA EnumerationType ==
    ASSUME NEW G, NEW gs \in Seq(G), \A g \in G : Values(g) \in Seq(Symbol)
    PROVE  Enumeration(gs) \in Seq(Combo)
<1>1. PICK f : IsCombining(f, gs, Len(gs)) /\ Enumeration(gs) = f[Len(gs)]
  BY EnumerationDef
<1> DEFINE T == {i \in Nat : i \in 0..Len(gs) => f[i] \in Seq(Combo)}
<1>2. Len(gs) \in Nat
  OBVIOUS
<1>3. 0 \in T
  <2>1. f[0] = <<Nothing>>
    BY <1>1, <1>2 DEF IsCombining
  <2> QED
    BY <2>1, NothingType
<1>4. ASSUME NEW i \in Nat, i \in T PROVE i + 1 \in T
  <2> SUFFICES ASSUME i + 1 \in 0..Len(gs) PROVE f[i + 1] \in Seq(Combo)
    OBVIOUS
  <2> DEFINE g == gs[Len(gs) - (i + 1) + 1]
  <2>1. f[i + 1] = Product(g.kind, Values(g), f[i])
    <3>1. i + 1 # 0 /\ (i + 1) - 1 = i
      OBVIOUS
    <3>2. f[i + 1] = Product(g.kind, Values(g), f[(i + 1) - 1])
      BY <1>1, <3>1 DEF IsCombining
    <3> QED
      BY <3>1, <3>2
  <2>2. f[i] \in Seq(Combo)
    BY <1>2, <1>4
  <2>3. g \in G
    BY <1>2
  <2> HIDE DEF g
  <2>4. Values(g) \in Seq(Symbol)
    BY <2>3
  <2> QED
    BY <2>1, <2>2, <2>4, ProductType
<1> HIDE DEF T
<1>5. \A i \in Nat : i \in T
  BY <1>3, <1>4, Induction
<1> QED
  BY <1>1, <1>2, <1>5 DEF T

\* No generators.
LEMMA EnumerationNone == Enumeration(<<>>) = <<Nothing>>
<1>1. <<>> \in Seq({}) /\ Len(<<>>) = 0
  OBVIOUS
<1>2. PICK f : IsCombining(f, <<>>, 0) /\ Enumeration(<<>>) = f[0]
  BY <1>1, EnumerationDef
<1> QED
  BY <1>2 DEF IsCombining

\* A generator in front of others: its values and their combinations.
LEMMA EnumerationFront ==
    ASSUME NEW G, NEW gs \in Seq(G), gs # <<>>
    PROVE  Enumeration(gs) = Product(Head(gs).kind, Values(Head(gs)), Enumeration(Tail(gs)))
<1> DEFINE n == Len(gs)
           t == Tail(gs)
<1>1. n \in Nat /\ n # 0 /\ t \in Seq(G) /\ Len(t) = n - 1
  OBVIOUS
<1>2. \A i \in 1..(n - 1) : t[i] = gs[i + 1]
  OBVIOUS
<1>3. PICK f : IsCombining(f, gs, n) /\ Enumeration(gs) = f[n]
  BY EnumerationDef
<1>4. PICK h : IsCombining(h, t, n - 1) /\ Enumeration(t) = h[n - 1]
  <2> HIDE DEF t
  <2> QED
    BY <1>1, EnumerationDef
<1> HIDE DEF t
<1> DEFINE T == {i \in Nat : i \in 0..(n - 1) => f[i] = h[i]}
<1>5. 0 \in T
  BY <1>1, <1>3, <1>4 DEF IsCombining
<1>6. ASSUME NEW i \in Nat, i \in T PROVE i + 1 \in T
  <2> SUFFICES ASSUME i + 1 \in 0..(n - 1) PROVE f[i + 1] = h[i + 1]
    OBVIOUS
  <2> DEFINE g == gs[n - (i + 1) + 1]
             k == t[Len(t) - (i + 1) + 1]
  <2>0. i + 1 # 0 /\ (i + 1) - 1 = i /\ i + 1 \in 0..n
    BY <1>1
  <2>1. g = k
    <3>1. Len(t) - (i + 1) + 1 \in 1..(n - 1) /\ (Len(t) - (i + 1) + 1) + 1 = n - (i + 1) + 1
      BY <1>1
    <3> QED
      BY <1>2, <3>1
  <2>2. f[i + 1] = Product(g.kind, Values(g), f[(i + 1) - 1])
    BY <1>3, <2>0 DEF IsCombining
  <2>3. h[i + 1] = Product(k.kind, Values(k), h[(i + 1) - 1])
    BY <1>4, <2>0 DEF IsCombining
  <2>4. f[i] = h[i]
    BY <1>1, <1>6
  <2> HIDE DEF g, k
  <2> QED
    BY <2>0, <2>1, <2>2, <2>3, <2>4
<1> HIDE DEF T
<1>7. f[n - 1] = h[n - 1]
  <2>1. \A i \in Nat : i \in T
    BY <1>5, <1>6, Induction
  <2>2. n - 1 \in Nat /\ n - 1 \in 0..(n - 1)
    BY <1>1
  <2> QED
    BY <2>1, <2>2 DEF T
<1>8. n - n + 1 = 1 /\ n \in 0..n
  BY <1>1
<1>9. f[n] = Product(gs[n - n + 1].kind, Values(gs[n - n + 1]), f[n - 1])
  BY <1>1, <1>3, <1>8 DEF IsCombining
<1>10. Head(gs) = gs[1]
  OBVIOUS
<1> QED
  BY <1>3, <1>4, <1>7, <1>8, <1>9, <1>10 DEF t

-------------------------------------------------------------------------------
(***************************************************************************)
(* Generators.                                                             *)
(***************************************************************************)
\* Multiplication by a natural number keeps the order.
LEMMA Mono ==
    ASSUME NEW s \in Nat, NEW x \in Int, NEW y \in Int, x <= y
    PROVE  s * x <= s * y
OBVIOUS

\* The quotient, by multiplication.
LEMMA DivDef ==
    ASSUME NEW a \in Nat, NEW s \in Nat, s > 0
    PROVE  a \div s \in Nat /\ s * (a \div s) <= a /\ a < s * (a \div s) + s
OBVIOUS

\* Only the quotient has this property.
LEMMA DivUnique ==
    ASSUME NEW a \in Nat, NEW s \in Nat, s > 0, NEW q \in Int, s * q <= a, a < s * q + s
    PROVE  a \div s = q
<1> DEFINE d == a \div s
<1>1. d \in Nat /\ s * d <= a /\ a < s * d + s
  BY DivDef
<1> HIDE DEF d
<1>2. ~ (d < q)
  <2> SUFFICES ASSUME d + 1 <= q PROVE FALSE
    BY <1>1
  <2>1. s * (d + 1) <= s * q
    BY <1>1, Mono
  <2>2. s * (d + 1) = s * d + s
    BY <1>1
  <2> QED
    BY <1>1, <2>1, <2>2
<1>3. ~ (q < d)
  <2> SUFFICES ASSUME q + 1 <= d PROVE FALSE
    BY <1>1
  <2>1. s * (q + 1) <= s * d
    BY <1>1, Mono
  <2>2. s * (q + 1) = s * q + s
    BY <1>1
  <2> QED
    BY <1>1, <2>1, <2>2
<1> QED
  BY <1>1, <1>2, <1>3 DEF d

\* One divisor less, one less in the quotient.
LEMMA DivStep ==
    ASSUME NEW a \in Nat, NEW s \in Nat, s > 0, a >= s
    PROVE  (a - s) \div s = (a \div s) - 1
<1> DEFINE d == a \div s
<1>1. d \in Nat /\ s * d <= a /\ a < s * d + s
  BY DivDef
<1> HIDE DEF d
<1>2. s * (d - 1) = s * d - s
  BY <1>1
<1>3. a - s \in Nat /\ s * (d - 1) <= a - s /\ a - s < s * (d - 1) + s
  BY <1>1, <1>2
<1> QED
  BY <1>1, <1>3, DivUnique DEF d

\* Generators that have given some of their values.
StaticGen == [kind : {"static"}, text : STRING, spent : BOOLEAN]
SetGen == {g \in [kind : {"set"}, items : Seq(STRING), i : Nat] : g.i <= Len(g.items)}
RangeGen == [kind : {"range"}, width : Nat, low : Nat, high : Nat, step : Nat]
CharGen == {g \in [kind : {"char"}, low : Int, high : Int, step : Nat] : g.low >= -128}

Running == {g \in StaticGen \cup SetGen \cup RangeGen \cup CharGen : Sane(g)}

\* The values that are left.
Left(g) ==
    CASE g.kind = "static" -> IF g.spent THEN <<>> ELSE <<Text(g.text)>>
      [] g.kind = "set" -> [j \in 1..(Len(g.items) - g.i) |-> Text(g.items[g.i + j])]
      [] OTHER -> Values(g)

\* values begins with first and goes on with others.
Begins(values, first, others) ==
    /\ values \in Seq(Symbol) /\ others \in Seq(Symbol) /\ first \in Symbol
    /\ Len(values) = Len(others) + 1 /\ values[1] = first
    /\ \A j \in 1..Len(others) : values[j + 1] = others[j]

\* The generator gives the first of the values it has left and keeps the others.
Goes(g) ==
    /\ Left(g) \in Seq(Symbol)
    /\ ~ Yields(g) => Left(g) = <<>>
    /\ Yields(g) =>
        /\ Advanced(g) \in Running /\ Advanced(g).kind = g.kind
        /\ Begins(Left(g), Value(g), Left(Advanced(g)))

\* A static generator.
LEMMA StaticGoes ==
    ASSUME NEW g \in StaticGen
    PROVE  Goes(g)
<1>1. g.kind = "static" /\ g.text \in STRING /\ g.spent \in BOOLEAN
  BY DEF StaticGen
<1>2. Text(g.text) \in Symbol
  BY <1>1 DEF Symbol
<1>3. Left(g) = IF g.spent THEN <<>> ELSE <<Text(g.text)>>
  BY <1>1 DEF Left
<1>4. Yields(g) = ~ g.spent /\ Value(g) = Text(g.text) /\ Advanced(g) = [g EXCEPT !.spent = TRUE]
  BY <1>1 DEF Yields, Value, Advanced
<1> DEFINE a == [g EXCEPT !.spent = TRUE]
<1>5. a \in StaticGen /\ a.kind = "static" /\ a.spent
  BY DEF StaticGen
<1>6. Sane(a)
  BY <1>5 DEF Sane
<1>7. Left(a) = <<>>
  <2> HIDE DEF a
  <2> QED
    BY <1>5 DEF Left
<1> HIDE DEF a
<1>8. a \in Running
  BY <1>5, <1>6 DEF Running
<1>9. CASE g.spent
  <2>1. ~ Yields(g) /\ Left(g) = <<>>
    BY <1>3, <1>4, <1>9
  <2> QED
    BY <2>1 DEF Goes
<1>10. CASE ~ g.spent
  <2> DEFINE l == <<Text(g.text)>>
             v == Text(g.text)
  <2>1. Yields(g) /\ Left(g) = l /\ Value(g) = v /\ Advanced(g) = a
    BY <1>3, <1>4, <1>10 DEF a
  <2> HIDE DEF v
  <2>2. v \in Symbol
    BY <1>2 DEF v
  <2>3. l \in Seq(Symbol) /\ Len(l) = 1 /\ l[1] = v
    BY <2>2 DEF v
  <2> HIDE DEF l
  <2>4. Begins(l, v, <<>>)
    BY <2>2, <2>3 DEF Begins
  <2> QED
    BY <1>1, <1>5, <1>7, <1>8, <2>1, <2>3, <2>4 DEF Goes
<1> QED
  BY <1>1, <1>9, <1>10

\* A generator of the items of a set.
LEMMA SetGoes ==
    ASSUME NEW g \in SetGen
    PROVE  Goes(g)
<1>1. g.kind = "set" /\ g.items \in Seq(STRING) /\ g.i \in Nat /\ g.i <= Len(g.items)
  BY DEF SetGen
<1>2. \A j \in 1..Len(g.items) : Text(g.items[j]) \in Symbol
  BY <1>1 DEF Symbol
<1> DEFINE n == Len(g.items) - g.i
           l == [j \in 1..n |-> Text(g.items[g.i + j])]
<1>3. Left(g) = l
  BY <1>1 DEF Left
<1>4. n \in Nat /\ l \in Seq(Symbol) /\ Len(l) = n
  <2>1. n \in Nat
    BY <1>1
  <2>2. \A j \in 1..n : g.i + j \in 1..Len(g.items)
    BY <1>1
  <2>3. \A j \in 1..n : Text(g.items[g.i + j]) \in Symbol
    BY <1>2, <2>2
  <2> HIDE DEF n
  <2> QED
    BY <2>1, <2>3
<1>5. Yields(g) <=> n # 0
  BY <1>1 DEF Yields
<1>6. CASE n = 0
  <2>1. l = <<>>
    BY <1>4, <1>6
  <2> QED
    BY <1>3, <1>4, <1>5, <1>6, <2>1 DEF Goes
<1>7. CASE n # 0
  <2> DEFINE a == [g EXCEPT !.i = @ + 1]
  <2>1. Value(g) = Text(g.items[g.i + 1]) /\ Advanced(g) = a
    BY <1>1 DEF Value, Advanced
  <2>2. /\ a \in SetGen /\ a.kind = "set" /\ a.i = g.i + 1 /\ a.items = g.items
    <3>1. g.i + 1 <= Len(g.items) /\ g.i + 1 \in Nat
      BY <1>1, <1>4, <1>7
    <3>2. g = [kind |-> g.kind, items |-> g.items, i |-> g.i]
      BY DEF SetGen
    <3>3. a = [kind |-> g.kind, items |-> g.items, i |-> g.i + 1]
      BY <3>2
    <3> HIDE DEF a
    <3> QED
      BY <1>1, <3>1, <3>3 DEF SetGen
  <2>3. Sane(a)
    BY <2>2 DEF Sane
  <2> HIDE DEF a
  <2>4. Left(a) = [j \in 1..(Len(g.items) - (g.i + 1)) |-> Text(g.items[(g.i + 1) + j])]
    BY <2>2 DEF Left
  <2>5. n - 1 \in Nat /\ Len(g.items) - (g.i + 1) = n - 1
    BY <1>1, <1>4, <1>7
  <2>6. Left(a) = [j \in 1..(n - 1) |-> Text(g.items[(g.i + 1) + j])]
    BY <2>4, <2>5
  <2>7. \A j \in 1..(n - 1) :
            /\ (g.i + 1) + j \in 1..Len(g.items) /\ j + 1 \in 1..n
            /\ (g.i + 1) + j = g.i + (j + 1)
    <3> DEFINE len == Len(g.items)
               i == g.i
    <3>1. len \in Nat /\ i \in Nat /\ n = len - i
      BY <1>1
    <3> HIDE DEF n, len, i
    <3>2. \A j \in 1..(n - 1) :
            /\ (i + 1) + j \in 1..len /\ j + 1 \in 1..n
            /\ (i + 1) + j = i + (j + 1)
      BY <3>1
    <3> QED
      BY <3>2 DEF len, i
  <2>8. \A j \in 1..(n - 1) : Text(g.items[(g.i + 1) + j]) \in Symbol
    BY <1>2, <2>7
  <2> HIDE DEF n
  <2>9. Left(a) \in Seq(Symbol) /\ Len(Left(a)) = n - 1
    BY <2>5, <2>6, <2>8
  <2>10. l[1] = Value(g) /\ l[1] \in Symbol
    BY <1>4, <1>7, <2>1
  <2>11. \A j \in 1..Len(Left(a)) : l[j + 1] = Left(a)[j]
    BY <2>6, <2>7, <2>9
  <2>12. a \in Running
    BY <2>2, <2>3 DEF Running
  <2> HIDE DEF l
  <2> QED
    BY <1>1, <1>3, <1>4, <1>5, <1>7, <2>1, <2>2, <2>5, <2>9, <2>10, <2>11, <2>12 DEF Goes, Begins
<1> QED
  BY <1>6, <1>7

\* A small number is what it is modulo a larger one.
LEMMA ModSmall ==
    ASSUME NEW x \in Nat, NEW w \in Nat, x < w
    PROVE  x % w = x
OBVIOUS

\* A number that a char can hold.
LEMMA CharSmall ==
    ASSUME NEW n \in Int, n >= -128, n < 128
    PROVE  Char(n) = n
BY DEF Char

\* Without the first one, they are the numbers from low + step on.
LEMMA Counting ==
    ASSUME NEW low \in Int, NEW high \in Int, NEW step \in Nat, step > 0
    PROVE  /\ Count(low, high, step) \in Nat
           /\ Count(low, high, step) = 0 <=> low > high
           /\ low <= high => Count(low, high, step) = Count(low + step, high, step) + 1
<1>1. CASE low > high
  BY <1>1 DEF Count
<1>2. CASE low <= high
  <2> DEFINE a == high - low
             d == a \div step
  <2>1. a \in Nat /\ ~ (low > high)
    BY <1>2
  <2>2. Count(low, high, step) = d + 1
    BY <2>1 DEF Count
  <2> HIDE DEF a
  <2>3. d \in Nat /\ step * d <= a /\ a < step * d + step
    BY <2>1, DivDef
  <2>4. CASE a < step
    <3>1. d = 0
      BY <2>1, <2>4
    <3>2. low + step > high
      BY <2>4 DEF a
    <3> QED
      BY <1>2, <2>2, <3>1, <3>2 DEF Count
  <2>5. CASE a >= step
    <3>1. (a - step) \div step = d - 1
      BY <2>1, <2>5, DivStep
    <3>2. ~ (low + step > high) /\ high - (low + step) = a - step
      BY <2>5 DEF a
    <3>3. Count(low + step, high, step) = (d - 1) + 1
      BY <3>1, <3>2 DEF Count
    <3> HIDE DEF d
    <3> QED
      BY <1>2, <2>2, <2>3, <3>3
  <2> QED
    BY <2>1, <2>4, <2>5
<1> QED
  BY <1>1, <1>2

\* The numbers one after the other.
LEMMA AtSteps ==
    ASSUME NEW low \in Int, NEW step \in Nat, NEW i \in Nat, i > 0
    PROVE  /\ At(low, step, 1) = low
           /\ At(low + step, step, i) = At(low, step, i + 1)
           /\ At(low, step, i) \in Int /\ At(low, step, i) >= low
<1>1. At(low, step, 1) = low /\ At(low, step, i) \in Int
  BY DEF At
<1>2. (low + step) + (i - 1) * step = low + ((i + 1) - 1) * step
  OBVIOUS
<1>3. step * 0 <= step * (i - 1)
  BY Mono
<1> QED
  BY <1>1, <1>2, <1>3 DEF At

\* The first number beyond high is the same from low + step on, and not below that.
LEMMA SameBeyond ==
    ASSUME NEW low \in Int, NEW high \in Int, NEW step \in Nat, step > 0, low <= high
    PROVE  LET beyond == At(low, step, Count(low, high, step) + 1)
           IN  /\ beyond = At(low + step, step, Count(low + step, high, step) + 1)
               /\ beyond \in Int /\ low + step <= beyond
<1> DEFINE n == Count(low, high, step)
           m == Count(low + step, high, step)
<1>1. n \in Nat /\ n = m + 1
  BY Counting
<1>2. m \in Nat
  <2>1. low + step \in Int
    OBVIOUS
  <2> QED
    BY <2>1, Counting
<1> HIDE DEF n, m
<1>3. At(low + step, step, m + 1) = At(low, step, (m + 1) + 1)
  BY <1>2, AtSteps
<1>4. low + step \in Int /\ m + 1 \in Nat /\ m + 1 > 0
  BY <1>2
<1>5. At(low + step, step, m + 1) \in Int /\ At(low + step, step, m + 1) >= low + step
  BY <1>4, AtSteps
<1>6. At(low, step, n + 1) = At(low + step, step, m + 1)
  BY <1>1, <1>3
<1> QED
  BY <1>5, <1>6 DEF n, m

\* A generator of numbers.
LEMMA RangeGoes ==
    ASSUME NEW g \in RangeGen, Sane(g)
    PROVE  Goes(g)
<1> DEFINE low == g.low
           high == g.high
           step == g.step
           w == g.width
           n == Count(low, high, step)
           l == [i \in 1..n |-> Number(At(low, step, i), w)]
           a == [kind |-> "range", width |-> w, low |-> low + step, high |-> high, step |-> step]
           m == Count(low + step, high, step)
           r == [i \in 1..m |-> Number(At(low + step, step, i), w)]
<1>1. /\ g.kind = "range" /\ low \in Nat /\ high \in Nat /\ step \in Nat /\ w \in Nat
      /\ g = [kind |-> "range", width |-> w, low |-> low, high |-> high, step |-> step]
  BY DEF RangeGen
<1>2. low <= high => step > 0 /\ At(low, step, n + 1) < Word
  BY <1>1 DEF Sane
<1>3. Left(g) = l
  BY <1>1 DEF Left, Values
<1>4. (Yields(g) <=> low <= high) /\ Value(g) = Number(low, w)
  BY <1>1 DEF Yields, Value
<1>5. a \in RangeGen /\ a.kind = "range"
  BY <1>1 DEF RangeGen
<1>6. low <= high =>
        /\ At(low, step, n + 1) = At(low + step, step, m + 1)
        /\ At(low, step, n + 1) \in Int /\ low + step <= At(low, step, n + 1)
  <2> HIDE DEF low, high, step
  <2> QED
    BY <1>1, <1>2, SameBeyond
<1> HIDE DEF n, m
<1>7. Left(a) = r /\ (low <= high => Sane(a))
  <2>1. Left(a) = r
    BY <1>1 DEF Left, Values, m
  <2>2. low <= high => Sane(a)
    BY <1>1, <1>2, <1>6 DEF Sane, m
  <2> QED
    BY <2>1, <2>2
<1>8. low <= high => Advanced(g) = a
  <2> SUFFICES ASSUME low <= high PROVE Advanced(g) = a
    OBVIOUS
  <2>1. Advanced(g) = [g EXCEPT !.low = (@ + g.step) % Word]
    BY <1>1 DEF Advanced
  <2>2. (low + step) % Word = low + step
    <3>1. low + step \in Nat /\ low + step < Word
      BY <1>1, <1>2, <1>6, WordAssumption
    <3> HIDE DEF low, step
    <3> QED
      BY <3>1, WordAssumption, ModSmall
  <2> QED
    BY <1>1, <2>1, <2>2
<1>9. ASSUME NEW b \in Nat, NEW i \in Nat, i > 0 PROVE Number(At(b, step, i), w) \in Symbol
  <2>1. At(b, step, i) \in Nat
    BY <1>1, <1>9, AtSteps
  <2> HIDE DEF w, step
  <2> QED
    BY <1>1, <2>1 DEF Symbol, w
<1> HIDE DEF low, high, step, w, a
<1>10. CASE low > high
  <2>1. n = 0 /\ ~ Yields(g)
    BY <1>1, <1>4, <1>10 DEF Count, n
  <2>2. l = <<>>
    BY <2>1
  <2> HIDE DEF l
  <2>3. Left(g) = <<>> /\ <<>> \in Seq(Symbol)
    BY <1>3, <2>2
  <2> QED
    BY <2>1, <2>3 DEF Goes
<1>11. CASE low <= high
  <2>1. n \in Nat /\ m \in Nat /\ n > 0 /\ n = m + 1
    <3>1. low \in Int /\ low + step \in Int /\ step > 0 /\ ~ (low > high)
      BY <1>1, <1>2, <1>11
    <3>2. m \in Nat
      BY <1>1, <3>1, Counting DEF m
    <3>3. n \in Nat /\ n # 0 /\ n = m + 1
      BY <1>1, <1>11, <3>1, Counting DEF n, m
    <3> QED
      BY <3>2, <3>3
  <2>2. l \in Seq(Symbol) /\ Len(l) = n /\ r \in Seq(Symbol) /\ Len(r) = m
    <3>1. low + step \in Nat
      BY <1>1
    <3> QED
      BY <1>1, <1>9, <2>1, <3>1
  <2>3. l[1] = Number(low, w) /\ l[1] \in Symbol
    <3>1. 1 \in 1..n /\ At(low, step, 1) = low
      BY <1>1, <2>1, AtSteps
    <3>2. l[1] = Number(At(low, step, 1), w)
      BY <3>1
    <3> QED
      BY <1>1, <1>9, <3>1, <3>2
  <2>4. ASSUME NEW i \in 1..Len(r) PROVE l[i + 1] = r[i]
    <3>1. i \in 1..m /\ i + 1 \in 1..n /\ i \in Nat /\ i > 0
      BY <2>1, <2>2
    <3>2. At(low + step, step, i) = At(low, step, i + 1)
      BY <1>1, <3>1, AtSteps
    <3> QED
      BY <3>1, <3>2
  <2> HIDE DEF l, r
  <2>5. Len(l) = Len(r) + 1
    BY <2>1, <2>2
  <2>6. Begins(l, Number(low, w), r)
    BY <2>2, <2>3, <2>4, <2>5 DEF Begins
  <2>7. a \in Running
    BY <1>5, <1>7, <1>11 DEF Running
  <2> QED
    BY <1>1, <1>3, <1>4, <1>5, <1>7, <1>8, <1>11, <2>2, <2>6, <2>7 DEF Goes
<1> QED
  BY <1>1, <1>10, <1>11

\* A generator of characters.
LEMMA CharGoes ==
    ASSUME NEW g \in CharGen, Sane(g)
    PROVE  Goes(g)
<1> DEFINE low == g.low
           high == g.high
           step == g.step
           n == Count(low, high, step)
           l == [i \in 1..n |-> Character(At(low, step, i))]
           a == [kind |-> "char", low |-> low + step, high |-> high, step |-> step]
           m == Count(low + step, high, step)
           r == [i \in 1..m |-> Character(At(low + step, step, i))]
<1>1. /\ g.kind = "char" /\ low \in Int /\ high \in Int /\ step \in Nat /\ low >= -128
      /\ g = [kind |-> "char", low |-> low, high |-> high, step |-> step]
  BY DEF CharGen
<1>2. low <= high => step > 0 /\ At(low, step, n + 1) < 128
  BY <1>1 DEF Sane
<1>3. Left(g) = l
  BY <1>1 DEF Left, Values
<1>4. (Yields(g) <=> low <= high) /\ Value(g) = Character(low)
  BY <1>1 DEF Yields, Value
<1>5. a \in CharGen /\ a.kind = "char"
  BY <1>1 DEF CharGen
<1>6. low <= high =>
        /\ At(low, step, n + 1) = At(low + step, step, m + 1)
        /\ At(low, step, n + 1) \in Int /\ low + step <= At(low, step, n + 1)
  <2> HIDE DEF low, high, step
  <2> QED
    BY <1>1, <1>2, SameBeyond
<1> HIDE DEF n, m
<1>7. Left(a) = r /\ (low <= high => Sane(a))
  <2>1. Left(a) = r
    BY <1>1 DEF Left, Values, m
  <2>2. low <= high => Sane(a)
    BY <1>1, <1>2, <1>6 DEF Sane, m
  <2> QED
    BY <2>1, <2>2
<1>8. low <= high => Advanced(g) = a
  <2> SUFFICES ASSUME low <= high PROVE Advanced(g) = a
    OBVIOUS
  <2>1. Advanced(g) = [g EXCEPT !.low = Char(@ + g.step)]
    BY <1>1 DEF Advanced
  <2>2. Char(low + step) = low + step
    <3>1. low + step \in Int /\ low + step >= -128 /\ low + step < 128
      BY <1>1, <1>2, <1>6
    <3> HIDE DEF low, step
    <3> QED
      BY <3>1, CharSmall
  <2> QED
    BY <1>1, <2>1, <2>2
<1>9. ASSUME NEW b \in Int, NEW i \in Nat, i > 0 PROVE Character(At(b, step, i)) \in Symbol
  <2>1. At(b, step, i) \in Int
    BY <1>1, <1>9, AtSteps
  <2> HIDE DEF step
  <2> QED
    BY <1>1, <2>1 DEF Symbol
<1> HIDE DEF low, high, step, a
<1>10. CASE low > high
  <2>1. n = 0 /\ ~ Yields(g)
    BY <1>1, <1>4, <1>10 DEF Count, n
  <2>2. l = <<>>
    BY <2>1
  <2> HIDE DEF l
  <2>3. Left(g) = <<>> /\ <<>> \in Seq(Symbol)
    BY <1>3, <2>2
  <2> QED
    BY <2>1, <2>3 DEF Goes
<1>11. CASE low <= high
  <2>1. n \in Nat /\ m \in Nat /\ n > 0 /\ n = m + 1
    <3>1. low \in Int /\ low + step \in Int /\ step > 0 /\ ~ (low > high)
      BY <1>1, <1>2, <1>11
    <3>2. m \in Nat
      BY <1>1, <3>1, Counting DEF m
    <3>3. n \in Nat /\ n # 0 /\ n = m + 1
      BY <1>1, <1>11, <3>1, Counting DEF n, m
    <3> QED
      BY <3>2, <3>3
  <2>2. l \in Seq(Symbol) /\ Len(l) = n /\ r \in Seq(Symbol) /\ Len(r) = m
    <3>1. low + step \in Int
      BY <1>1
    <3> QED
      BY <1>1, <1>9, <2>1, <3>1
  <2>3. l[1] = Character(low) /\ l[1] \in Symbol
    <3>1. 1 \in 1..n /\ At(low, step, 1) = low
      BY <1>1, <2>1, AtSteps
    <3>2. l[1] = Character(At(low, step, 1))
      BY <3>1
    <3> QED
      BY <1>1, <1>9, <3>1, <3>2
  <2>4. ASSUME NEW i \in 1..Len(r) PROVE l[i + 1] = r[i]
    <3>1. i \in 1..m /\ i + 1 \in 1..n /\ i \in Nat /\ i > 0
      BY <2>1, <2>2
    <3>2. At(low + step, step, i) = At(low, step, i + 1)
      BY <1>1, <3>1, AtSteps
    <3> QED
      BY <3>1, <3>2
  <2> HIDE DEF l, r
  <2>5. Len(l) = Len(r) + 1
    BY <2>1, <2>2
  <2>6. Begins(l, Character(low), r)
    BY <2>2, <2>3, <2>4, <2>5 DEF Begins
  <2>7. a \in Running
    BY <1>5, <1>7, <1>11 DEF Running
  <2> QED
    BY <1>1, <1>3, <1>4, <1>5, <1>7, <1>8, <1>11, <2>2, <2>6, <2>7 DEF Goes
<1> QED
  BY <1>1, <1>10, <1>11

\* Every generator does, whatever it has given already.
LEMMA RunningGoes ==
    ASSUME NEW g \in Running
    PROVE  Goes(g)
BY StaticGoes, SetGoes, RangeGoes, CharGoes DEF Running

\* Generators as a pattern has them.
Fresh == {g \in Generator : Sane(g)}

\* A generator of a pattern has all of its values left.
LEMMA FreshRuns ==
    ASSUME NEW g \in Fresh
    PROVE  g \in Running /\ Left(g) = Values(g) /\ Values(g) \in Seq(Symbol)
<1>1. Sane(g)
  BY DEF Fresh
<1>2. CASE g \in [kind : {"static"}, text : STRING, spent : {FALSE}]
  <2>1. g \in StaticGen /\ Left(g) = Values(g)
    BY <1>2 DEF StaticGen, Left, Values
  <2> QED
    BY <1>1, <2>1, StaticGoes DEF Running, Goes
<1>3. CASE g \in [kind : {"set"}, items : Seq(STRING), i : {0}]
  <2>1. g \in SetGen
    BY <1>3 DEF SetGen
  <2>2. /\ g.kind = "set" /\ g.items \in Seq(STRING) /\ g.i = 0
    BY <1>3
  <2>3. Left(g) = [j \in 1..(Len(g.items) - 0) |-> Text(g.items[0 + j])]
    BY <2>2 DEF Left
  <2>4. Values(g) = [j \in DOMAIN g.items |-> Text(g.items[j])]
    BY <2>2 DEF Values
  <2>5. DOMAIN g.items = 1..(Len(g.items) - 0) /\ \A j \in DOMAIN g.items : 0 + j = j
    BY <2>2
  <2>6. Left(g) = Values(g)
    BY <2>3, <2>4, <2>5
  <2> QED
    BY <1>1, <2>1, <2>6, SetGoes DEF Running, Goes
<1>4. CASE g \in [kind : {"range"}, width : 0..255, low : 0..(Word - 1), high : 0..(Word - 1),
                  step : 0..(Word - 1)]
  <2>1. g \in RangeGen
    BY <1>4, WordAssumption DEF RangeGen
  <2>2. Left(g) = Values(g)
    BY <2>1 DEF RangeGen, Left
  <2> QED
    BY <1>1, <2>1, <2>2, RangeGoes DEF Running, Goes
<1>5. CASE g \in [kind : {"char"}, low : -128..127, high : -128..127, step : 0..255]
  <2>1. g \in CharGen
    BY <1>5 DEF CharGen
  <2>2. Left(g) = Values(g)
    BY <2>1 DEF CharGen, Left
  <2> QED
    BY <1>1, <2>1, <2>2, CharGoes DEF Running, Goes
<1> QED
  BY <1>2, <1>3, <1>4, <1>5 DEF Fresh, Generator

-------------------------------------------------------------------------------
(***************************************************************************)
(* Combinations behind what was put together already.                      *)
(***************************************************************************)
Extended(p, t, c) == [result |-> Cat(p, c.result), tokens |-> Cat(t, c.tokens)]
Extend(p, t, cs) == [n \in DOMAIN cs |-> Extended(p, t, cs[n])]

\* What a combination has.
LEMMA ComboParts ==
    ASSUME NEW cs \in Seq(Combo), NEW n \in DOMAIN cs
    PROVE  /\ cs[n] \in Combo
           /\ cs[n].result \in Seq(Symbol) /\ cs[n].tokens \in Seq(Symbol)
           /\ cs[n] = [result |-> cs[n].result, tokens |-> cs[n].tokens]
<1>1. cs[n] \in Combo
  OBVIOUS
<1>2. ASSUME NEW c \in Combo
      PROVE  /\ c.result \in Seq(Symbol) /\ c.tokens \in Seq(Symbol)
             /\ c = [result |-> c.result, tokens |-> c.tokens]
  BY DEF Combo
<1> QED
  BY <1>1, <1>2

\* These are combinations.
LEMMA ExtendType ==
    ASSUME NEW p \in Seq(Symbol), NEW t \in Seq(Symbol), NEW cs \in Seq(Combo)
    PROVE  Extend(p, t, cs) \in Seq(Combo) /\ Len(Extend(p, t, cs)) = Len(cs)
<1>1. ASSUME NEW n \in DOMAIN cs PROVE Extended(p, t, cs[n]) \in Combo
  <2>1. cs[n].result \in Seq(Symbol) /\ cs[n].tokens \in Seq(Symbol)
    BY ComboParts
  <2>2. Cat(p, cs[n].result) \in Seq(Symbol) /\ Cat(t, cs[n].tokens) \in Seq(Symbol)
    BY <2>1, CatType
  <2> QED
    BY <2>2 DEF Extended, Combo
<1>2. DOMAIN cs = 1..Len(cs) /\ Len(cs) \in Nat
  OBVIOUS
<1> QED
  BY <1>1, <1>2 DEF Extend

\* Concatenation, element by element.
LEMMA CatElements ==
    ASSUME NEW S, NEW x \in Seq(S), NEW y \in Seq(S)
    PROVE  /\ Cat(x, y) \in Seq(S) /\ Len(Cat(x, y)) = Len(x) + Len(y)
           /\ \A n \in 1..(Len(x) + Len(y)) :
                Cat(x, y)[n] = IF n <= Len(x) THEN x[n] ELSE y[n - Len(x)]
BY ConcatProperties DEF Cat

\* Two parts are extended one after the other.
LEMMA ExtendCat ==
    ASSUME NEW p \in Seq(Symbol), NEW t \in Seq(Symbol), NEW x \in Seq(Combo), NEW y \in Seq(Combo)
    PROVE  Extend(p, t, Cat(x, y)) = Cat(Extend(p, t, x), Extend(p, t, y))
<1> DEFINE ex == Extend(p, t, x)
           ey == Extend(p, t, y)
           xy == Cat(x, y)
           a == Extend(p, t, xy)
           b == Cat(ex, ey)
<1>1. /\ xy \in Seq(Combo) /\ Len(xy) = Len(x) + Len(y)
      /\ \A n \in 1..(Len(x) + Len(y)) : xy[n] = IF n <= Len(x) THEN x[n] ELSE y[n - Len(x)]
  BY CatElements
<1>2. /\ ex \in Seq(Combo) /\ Len(ex) = Len(x)
      /\ ey \in Seq(Combo) /\ Len(ey) = Len(y)
  BY ExtendType
<1>3. /\ b \in Seq(Combo) /\ Len(b) = Len(ex) + Len(ey)
      /\ \A n \in 1..(Len(ex) + Len(ey)) : b[n] = IF n <= Len(ex) THEN ex[n] ELSE ey[n - Len(ex)]
  <2> HIDE DEF ex, ey
  <2> QED
    BY <1>2, CatElements
<1>4. a \in Seq(Combo) /\ Len(a) = Len(xy)
  <2> HIDE DEF xy
  <2> QED
    BY <1>1, ExtendType
<1>5. /\ \A n \in 1..Len(x) : ex[n] = Extended(p, t, x[n])
      /\ \A n \in 1..Len(y) : ey[n] = Extended(p, t, y[n])
      /\ \A n \in 1..Len(xy) : a[n] = Extended(p, t, xy[n])
  <2>1. DOMAIN x = 1..Len(x) /\ DOMAIN y = 1..Len(y) /\ DOMAIN xy = 1..Len(xy)
    BY <1>1
  <2> HIDE DEF xy
  <2> QED
    BY <2>1 DEF Extend
<1>6. Len(x) \in Nat /\ Len(y) \in Nat
  OBVIOUS
<1> HIDE DEF ex, ey, xy, a, b
<1>7. ASSUME NEW n \in 1..Len(a) PROVE a[n] = b[n]
  <2>1. n \in 1..(Len(x) + Len(y)) /\ n \in 1..Len(xy) /\ n \in 1..(Len(ex) + Len(ey))
    BY <1>1, <1>2, <1>4
  <2>2. CASE n <= Len(x)
    <3>1. n \in 1..Len(x)
      BY <1>6, <2>1, <2>2
    <3> QED
      BY <1>1, <1>2, <1>3, <1>5, <2>1, <2>2, <3>1
  <2>3. CASE ~ (n <= Len(x))
    <3>1. n - Len(x) \in 1..Len(y)
      BY <1>6, <2>1, <2>3
    <3> QED
      BY <1>1, <1>2, <1>3, <1>5, <2>1, <2>3, <3>1
  <2> QED
    BY <2>2, <2>3
<1>8. a = b
  BY <1>1, <1>2, <1>3, <1>4, <1>7, SeqEqual
<1> QED
  BY <1>8 DEF a, b, xy, ex, ey

\* A value in front goes to the end of what there is.
LEMMA ExtendRow ==
    ASSUME NEW p \in Seq(Symbol), NEW t \in Seq(Symbol), NEW kind, NEW v \in Symbol,
           NEW rest \in Seq(Combo)
    PROVE  Extend(p, t, Row(kind, v, rest))
            = Extend(Append(p, v), Cat(t, Token(kind, v)), rest)
<1>1. Append(p, v) = Cat(p, <<v>>) /\ <<v>> \in Seq(Symbol) /\ Token(kind, v) \in Seq(Symbol)
  BY AppendIsConcat, TokenType DEF Cat
<1>2. ASSUME NEW n \in DOMAIN rest
      PROVE  Extended(p, t, Prepend(kind, v, rest[n]))
                = Extended(Append(p, v), Cat(t, Token(kind, v)), rest[n])
  <2> DEFINE c == rest[n]
             one == <<v>>
  <2>1. c \in Combo /\ c.result \in Seq(Symbol) /\ c.tokens \in Seq(Symbol)
    BY ComboParts
  <2>2. /\ Prepend(kind, v, c).result = Cat(<<v>>, c.result)
        /\ Prepend(kind, v, c).tokens = Cat(Token(kind, v), c.tokens)
    BY <2>1, PrependType
  <2>3. Cat(p, Cat(one, c.result)) = Cat(Cat(p, one), c.result)
    <3>1. one \in Seq(Symbol)
      BY <1>1
    <3> HIDE DEF c, one
    <3> QED
      BY <2>1, <3>1, CatAssociative
  <2>4. Cat(t, Cat(Token(kind, v), c.tokens)) = Cat(Cat(t, Token(kind, v)), c.tokens)
    BY <1>1, <2>1, CatAssociative
  <2> HIDE DEF c
  <2>5. Extended(p, t, Prepend(kind, v, c)) = Extended(Append(p, v), Cat(t, Token(kind, v)), c)
    BY <1>1, <2>2, <2>3, <2>4 DEF Extended
  <2> QED
    BY <2>5 DEF c
<1>3. DOMAIN Row(kind, v, rest) = DOMAIN rest
      /\ \A n \in DOMAIN rest : Row(kind, v, rest)[n] = Prepend(kind, v, rest[n])
  BY DEF Row
<1> QED
  BY <1>2, <1>3 DEF Extend

\* Nothing is put in front.
LEMMA ExtendNothing ==
    ASSUME NEW cs \in Seq(Combo)
    PROVE  Extend(<<>>, <<>>, cs) = cs
<1>1. ASSUME NEW n \in DOMAIN cs PROVE Extended(<<>>, <<>>, cs[n]) = cs[n]
  <2>1. cs[n].result \in Seq(Symbol) /\ cs[n].tokens \in Seq(Symbol)
    BY ComboParts
  <2>2. Cat(<<>>, cs[n].result) = cs[n].result /\ Cat(<<>>, cs[n].tokens) = cs[n].tokens
    BY <2>1, CatEmpty
  <2>3. cs[n] = [result |-> cs[n].result, tokens |-> cs[n].tokens]
    BY ComboParts
  <2> QED
    BY <2>2, <2>3 DEF Extended
<1>2. cs = [n \in DOMAIN cs |-> cs[n]]
  OBVIOUS
<1> QED
  BY <1>1, <1>2 DEF Extend

\* What there is, with no generators behind it.
LEMMA ExtendLast ==
    ASSUME NEW p \in Seq(Symbol), NEW t \in Seq(Symbol)
    PROVE  Extend(p, t, <<Nothing>>) = <<[result |-> p, tokens |-> t]>>
<1>1. Extended(p, t, Nothing) = [result |-> p, tokens |-> t]
  <2>1. Cat(p, <<>>) = p /\ Cat(t, <<>>) = t
    BY CatEmpty
  <2>2. Nothing.result = <<>> /\ Nothing.tokens = <<>>
    BY DEF Nothing
  <2> QED
    BY <2>1, <2>2 DEF Extended
<1>2. Extend(p, t, <<Nothing>>) = <<Extended(p, t, Nothing)>>
  BY DEF Extend
<1> QED
  BY <1>1, <1>2

\* The first value of a generator and the others, behind what there is.
LEMMA ExtendProduct ==
    ASSUME NEW p \in Seq(Symbol), NEW t \in Seq(Symbol), NEW kind, NEW v, NEW values, NEW others,
           Begins(values, v, others), NEW rest \in Seq(Combo)
    PROVE  Extend(p, t, Product(kind, values, rest))
            = Cat(Extend(Append(p, v), Cat(t, Token(kind, v)), rest),
                  Extend(p, t, Product(kind, others, rest)))
<1> DEFINE row == Row(kind, v, rest)
           more == Product(kind, others, rest)
<1>1. values \in Seq(Symbol) /\ others \in Seq(Symbol) /\ v \in Symbol /\ values[1] = v
  BY DEF Begins
<1>2. Product(kind, values, rest) = Cat(row, more)
  BY <1>1, ProductFront DEF Begins
<1>3. row \in Seq(Combo) /\ more \in Seq(Combo)
  BY <1>1, RowType, ProductType
<1>4. Extend(p, t, row) = Extend(Append(p, v), Cat(t, Token(kind, v)), rest)
  BY <1>1, ExtendRow
<1> HIDE DEF row, more
<1>5. Extend(p, t, Cat(row, more)) = Cat(Extend(p, t, row), Extend(p, t, more))
  BY <1>3, ExtendCat
<1> QED
  BY <1>2, <1>4, <1>5 DEF more

-------------------------------------------------------------------------------
(***************************************************************************)
(* The stack.                                                              *)
(***************************************************************************)

\* All but the last of a sequence, and the last.
LEMMA FrontLast ==
    ASSUME NEW S, NEW s \in Seq(S), s # <<>>
    PROVE  /\ Len(s) \in Nat \ {0} /\ Last(s) = s[Len(s)] /\ Last(s) \in S
           /\ Front(s) \in Seq(S) /\ Len(Front(s)) = Len(s) - 1
           /\ \A i \in 1..(Len(s) - 1) : Front(s)[i] = s[i]
           /\ Front(s) = <<>> <=> Len(s) = 1
<1>1. Len(s) \in Nat \ {0} /\ Last(s) = s[Len(s)] /\ Last(s) \in S
  BY DEF Last
<1> DEFINE n == Len(s) - 1
<1>2. n \in Nat /\ \A i \in 1..n : s[i] \in S
  BY <1>1
<1>3. /\ Front(s) \in Seq(S) /\ Len(Front(s)) = n
      /\ \A i \in 1..n : Front(s)[i] = s[i]
  <2> HIDE DEF n
  <2>1. /\ SubSeq(s, 1, n) \in Seq(S)
        /\ Len(SubSeq(s, 1, n)) = IF 1 <= n THEN n - 1 + 1 ELSE 0
        /\ \A i \in 1..(n - 1 + 1) : SubSeq(s, 1, n)[i] = s[1 + i - 1]
    BY <1>2, SubSeqProperties
  <2>2. Front(s) = SubSeq(s, 1, n)
    BY DEF Front, n
  <2>3. n - 1 + 1 = n /\ \A i \in 1..n : 1 + i - 1 = i
    BY <1>2
  <2> QED
    BY <1>2, <2>1, <2>2, <2>3
<1>4. Front(s) = <<>> <=> Len(s) = 1
  <2>1. Len(Front(s)) = 0 <=> Front(s) = <<>>
    BY <1>3, EmptySeq
  <2> QED
    BY <1>1, <1>3, <2>1
<1> QED
  BY <1>1, <1>3, <1>4

\* What was appended is the last.
LEMMA FrontAppend ==
    ASSUME NEW S, NEW s \in Seq(S), NEW x \in S
    PROVE  Front(Append(s, x)) = s /\ Last(Append(s, x)) = x /\ Append(s, x) # <<>>
           /\ Append(s, x) \in Seq(S)
<1> DEFINE t == Append(s, x)
<1>1. /\ t \in Seq(S) /\ t # <<>> /\ Len(t) = Len(s) + 1
      /\ \A i \in 1..Len(s) : t[i] = s[i]
      /\ t[Len(s) + 1] = x /\ Len(s) \in Nat
  BY AppendProperties
<1> HIDE DEF t
<1>2. /\ Last(t) = t[Len(t)]
      /\ Front(t) \in Seq(S) /\ Len(Front(t)) = Len(t) - 1
      /\ \A i \in 1..(Len(t) - 1) : Front(t)[i] = t[i]
  BY <1>1, FrontLast
<1>3. Front(t) = s
  BY <1>1, <1>2, SeqEqual
<1> QED
  BY <1>1, <1>2, <1>3 DEF t

\* What was put together, the generator that is asked next and those behind it.
Level ==
    {e \in [prefix : Seq(Symbol), gs : Seq(Running)] :
        e.gs # <<>> /\ Tail(e.gs) \in Seq(Fresh)}

\* The combinations that one of the stack is still to give, behind the tokens t.
Remaining(e, t) ==
    Extend(e.prefix, t, Product(Head(e.gs).kind, Left(Head(e.gs)), Enumeration(Tail(e.gs))))

\* The combinations of generators that have given no value yet.
LEMMA EnumerationFresh ==
    ASSUME NEW gs \in Seq(Fresh)
    PROVE  Enumeration(gs) \in Seq(Combo)
BY FreshRuns, EnumerationType

\* What one of the stack has.
LEMMA LevelParts ==
    ASSUME NEW e \in Level
    PROVE  /\ e.prefix \in Seq(Symbol) /\ e.gs \in Seq(Running) /\ e.gs # <<>>
           /\ Head(e.gs) \in Running /\ Tail(e.gs) \in Seq(Fresh)
           /\ e = [prefix |-> e.prefix, gs |-> e.gs]
BY DEF Level

\* These are combinations.
LEMMA RemainingType ==
    ASSUME NEW e \in Level, NEW t \in Seq(Symbol)
    PROVE  Remaining(e, t) \in Seq(Combo)
<1> DEFINE rest == Enumeration(Tail(e.gs))
           g == Head(e.gs)
<1>1. e.prefix \in Seq(Symbol) /\ g \in Running /\ rest \in Seq(Combo)
  BY LevelParts, EnumerationFresh
<1>2. Left(g) \in Seq(Symbol)
  BY <1>1, RunningGoes DEF Goes
<1> HIDE DEF rest, g
<1>3. Product(g.kind, Left(g), rest) \in Seq(Combo)
  BY <1>1, <1>2, ProductType
<1> QED
  BY <1>1, <1>3, ExtendType DEF Remaining, rest, g

\* What is below the top of the stack.
Under(rem) == IF rem = <<>> THEN <<>> ELSE Last(rem)

\* ts[d] are the tokens in front of the d-th of the stack, and rem[d] the combinations that
\* the first d of it are still to give.
Ledger(stack, ts, rem) ==
    /\ stack \in Seq(Level) /\ ts \in Seq(Seq(Symbol)) /\ rem \in Seq(Seq(Combo))
    /\ Len(ts) = Len(stack) /\ Len(rem) = Len(stack)
    /\ \A d \in 1..Len(stack) :
        rem[d] = Cat(Remaining(stack[d], ts[d]), IF d = 1 THEN <<>> ELSE rem[d - 1])
    /\ \A d \in 1..Len(stack) : d # 1 =>
        \E v \in Symbol : ts[d] = Cat(ts[d - 1], Token(Head(stack[d - 1].gs).kind, v))

\* The ledger of a stack without its top, and what the top adds to it.
LEMMA LedgerFront ==
    ASSUME NEW s, NEW ts, NEW rem, Ledger(s, ts, rem), s # <<>>
    PROVE  /\ Ledger(Front(s), Front(ts), Front(rem))
           /\ Last(s) \in Level /\ Last(ts) \in Seq(Symbol) /\ Under(Front(rem)) \in Seq(Combo)
           /\ Last(rem) = Cat(Remaining(Last(s), Last(ts)), Under(Front(rem)))
           /\ Front(s) # <<>> => /\ Front(ts) # <<>> /\ Front(rem) # <<>>
                                 /\ \E v \in Symbol : Last(ts) = Cat(Last(Front(ts)),
                                            Token(Head(Last(Front(s)).gs).kind, v))
           /\ Front(s) = <<>> => Front(rem) = <<>>
<1> DEFINE n == Len(s)
           fs == Front(s)
           ft == Front(ts)
           fr == Front(rem)
<1>1. /\ s \in Seq(Level) /\ ts \in Seq(Seq(Symbol)) /\ rem \in Seq(Seq(Combo))
      /\ Len(ts) = n /\ Len(rem) = n /\ n \in Nat \ {0} /\ ts # <<>> /\ rem # <<>>
  BY DEF Ledger
<1>2. /\ fs \in Seq(Level) /\ Len(fs) = n - 1 /\ Last(s) = s[n] /\ Last(s) \in Level
      /\ (fs = <<>> <=> n = 1)
      /\ \A i \in 1..(n - 1) : fs[i] = s[i]
  BY <1>1, FrontLast
<1>3. /\ ft \in Seq(Seq(Symbol)) /\ Len(ft) = n - 1 /\ Last(ts) = ts[n]
      /\ Last(ts) \in Seq(Symbol)
      /\ (ft = <<>> <=> n = 1)
      /\ \A i \in 1..(n - 1) : ft[i] = ts[i]
  BY <1>1, FrontLast
<1>4. /\ fr \in Seq(Seq(Combo)) /\ Len(fr) = n - 1 /\ Last(rem) = rem[n]
      /\ Last(rem) \in Seq(Combo)
      /\ (fr = <<>> <=> n = 1)
      /\ \A i \in 1..(n - 1) : fr[i] = rem[i]
  BY <1>1, FrontLast
<1>5. \A d \in 1..n : rem[d] = Cat(Remaining(s[d], ts[d]), IF d = 1 THEN <<>> ELSE rem[d - 1])
  BY DEF Ledger
<1>6. \A d \in 1..n : d # 1 =>
        \E v \in Symbol : ts[d] = Cat(ts[d - 1], Token(Head(s[d - 1].gs).kind, v))
  BY DEF Ledger
<1> HIDE DEF n, fs, ft, fr
<1>7. Ledger(fs, ft, fr)
  <2>1. ASSUME NEW d \in 1..(n - 1)
        PROVE  fr[d] = Cat(Remaining(fs[d], ft[d]), IF d = 1 THEN <<>> ELSE fr[d - 1])
    <3>1. d \in 1..n /\ (d # 1 => d - 1 \in 1..(n - 1))
      BY <1>1
    <3>2. rem[d] = Cat(Remaining(s[d], ts[d]), IF d = 1 THEN <<>> ELSE rem[d - 1])
      BY <1>5, <3>1
    <3> QED
      BY <1>2, <1>3, <1>4, <3>1, <3>2
  <2>2. ASSUME NEW d \in 1..(n - 1), d # 1
        PROVE  \E v \in Symbol : ft[d] = Cat(ft[d - 1], Token(Head(fs[d - 1].gs).kind, v))
    <3>1. d \in 1..n /\ d - 1 \in 1..(n - 1)
      BY <1>1, <2>2
    <3> QED
      BY <1>2, <1>3, <1>6, <2>2, <3>1
  <2> QED
    BY <1>2, <1>3, <1>4, <2>1, <2>2 DEF Ledger
<1>8. Under(fr) = IF n = 1 THEN <<>> ELSE rem[n - 1]
  <2>1. CASE n = 1
    BY <1>4, <2>1 DEF Under
  <2>2. CASE n # 1
    <3>1. n - 1 \in 1..(n - 1)
      BY <1>1, <2>2
    <3> QED
      BY <1>4, <2>2, <3>1 DEF Under, Last
  <2> QED
    BY <2>1, <2>2
<1>9. Under(fr) \in Seq(Combo)
  <2>1. n # 1 => n - 1 \in 1..n
    BY <1>1
  <2> QED
    BY <1>1, <1>8, <2>1, ElementOfSeq
<1>10. Last(rem) = Cat(Remaining(Last(s), Last(ts)), Under(fr))
  <2>1. n \in 1..n
    BY <1>1
  <2> QED
    BY <1>2, <1>3, <1>4, <1>5, <1>8, <2>1
<1>11. ASSUME n # 1
       PROVE  \E v \in Symbol : Last(ts) = Cat(Last(ft), Token(Head(Last(fs).gs).kind, v))
  <2>1. n \in 1..n /\ n - 1 \in 1..(n - 1)
    BY <1>1, <1>11
  <2>2. Last(ft) = ts[n - 1] /\ Last(fs) = s[n - 1]
    BY <1>2, <1>3, <2>1 DEF Last
  <2> QED
    BY <1>3, <1>6, <1>11, <2>1, <2>2
<1> QED
  BY <1>2, <1>3, <1>4, <1>7, <1>9, <1>10, <1>11 DEF fs, ft, fr

\* The ledger of a stack with one more on top.
LEMMA LedgerPush ==
    ASSUME NEW s, NEW ts, NEW rem, Ledger(s, ts, rem), NEW e \in Level, NEW t \in Seq(Symbol),
           s # <<>> => \E v \in Symbol : t = Cat(Last(ts), Token(Head(Last(s).gs).kind, v))
    PROVE  /\ Ledger(Append(s, e), Append(ts, t), Append(rem, Cat(Remaining(e, t), Under(rem))))
           /\ Under(rem) \in Seq(Combo) /\ Cat(Remaining(e, t), Under(rem)) \in Seq(Combo)
<1> DEFINE n == Len(s)
           r == Cat(Remaining(e, t), Under(rem))
           as == Append(s, e)
           at == Append(ts, t)
           ar == Append(rem, r)
<1>1. /\ s \in Seq(Level) /\ ts \in Seq(Seq(Symbol)) /\ rem \in Seq(Seq(Combo))
      /\ Len(ts) = n /\ Len(rem) = n /\ n \in Nat
      /\ (rem = <<>> <=> n = 0) /\ (s = <<>> <=> n = 0)
  BY DEF Ledger
<1>2. Under(rem) \in Seq(Combo)
  BY <1>1, FrontLast DEF Under
<1>3. r \in Seq(Combo)
  BY <1>2, RemainingType, CatType
<1> HIDE DEF n, r
<1>4. /\ as \in Seq(Level) /\ Len(as) = n + 1 /\ as[n + 1] = e /\ \A i \in 1..n : as[i] = s[i]
  BY <1>1, AppendProperties DEF n
<1>5. /\ at \in Seq(Seq(Symbol)) /\ Len(at) = n + 1 /\ at[n + 1] = t
      /\ \A i \in 1..n : at[i] = ts[i]
  BY <1>1, AppendProperties
<1>6. /\ ar \in Seq(Seq(Combo)) /\ Len(ar) = n + 1 /\ ar[n + 1] = r
      /\ \A i \in 1..n : ar[i] = rem[i]
  BY <1>1, <1>3, AppendProperties
<1>7. \A d \in 1..n : rem[d] = Cat(Remaining(s[d], ts[d]), IF d = 1 THEN <<>> ELSE rem[d - 1])
  BY DEF Ledger, n
<1>8. \A d \in 1..n : d # 1 =>
        \E v \in Symbol : ts[d] = Cat(ts[d - 1], Token(Head(s[d - 1].gs).kind, v))
  BY DEF Ledger, n
<1>9. n # 0 => n \in 1..n /\ Last(s) = s[n] /\ Last(ts) = ts[n] /\ Last(rem) = rem[n]
  BY <1>1 DEF Last, n
<1> HIDE DEF as, at, ar
<1>10. ASSUME NEW d \in 1..(n + 1)
       PROVE  ar[d] = Cat(Remaining(as[d], at[d]), IF d = 1 THEN <<>> ELSE ar[d - 1])
  <2>1. CASE d = n + 1
    <3>1. Under(rem) = IF d = 1 THEN <<>> ELSE ar[d - 1]
      <4>1. CASE n = 0
        BY <1>1, <2>1, <4>1 DEF Under
      <4>2. CASE n # 0
        <5>1. d # 1 /\ d - 1 = n
          BY <1>1, <2>1, <4>2
        <5> QED
          BY <1>1, <1>6, <1>9, <4>2, <5>1 DEF Under
      <4> QED
        BY <4>1, <4>2
    <3> QED
      BY <1>4, <1>5, <1>6, <2>1, <3>1 DEF r
  <2>2. CASE d # n + 1
    <3>1. d \in 1..n /\ (d # 1 => d - 1 \in 1..n)
      BY <1>1, <2>2
    <3>2. rem[d] = Cat(Remaining(s[d], ts[d]), IF d = 1 THEN <<>> ELSE rem[d - 1])
      BY <1>7, <3>1
    <3> QED
      BY <1>4, <1>5, <1>6, <3>1, <3>2
  <2> QED
    BY <2>1, <2>2
<1>11. ASSUME NEW d \in 1..(n + 1), d # 1
       PROVE  \E v \in Symbol : at[d] = Cat(at[d - 1], Token(Head(as[d - 1].gs).kind, v))
  <2>1. CASE d = n + 1
    <3>1. n # 0 /\ d - 1 = n
      BY <1>1, <1>11, <2>1
    <3>2. at[d - 1] = Last(ts) /\ as[d - 1] = Last(s)
      BY <1>4, <1>5, <1>9, <3>1
    <3> QED
      BY <1>1, <1>5, <2>1, <3>1, <3>2
  <2>2. CASE d # n + 1
    <3>1. d \in 1..n /\ d - 1 \in 1..n
      BY <1>1, <1>11, <2>2
    <3> QED
      BY <1>4, <1>5, <1>8, <1>11, <3>1
  <2> QED
    BY <2>1, <2>2
<1>12. Ledger(as, at, ar)
  BY <1>4, <1>5, <1>6, <1>10, <1>11 DEF Ledger
<1> QED
  BY <1>2, <1>3, <1>12 DEF as, at, ar, r

-------------------------------------------------------------------------------
(***************************************************************************)
(* The machine.                                                            *)
(***************************************************************************)

\* The machine is still to give the combinations r.
Leaves(m, r) ==
    /\ m = [stack |-> m.stack, tokens |-> m.tokens] /\ m.tokens \in Seq(Symbol)
    /\ \E ts, rem :
        /\ Ledger(m.stack, ts, rem) /\ r = Under(rem)
        /\ m.stack # <<>> => m.tokens = Last(ts)

\* The top of the stack when its generator gives a value.
AskedLevel(e) == [e EXCEPT !.gs[1] = Advanced(@)]

\* The combinations of the value that is given come first, those that remain after it.
LEMMA LevelAsked ==
    ASSUME NEW e \in Level, Yields(Head(e.gs)), NEW t \in Seq(Symbol)
    PROVE  LET g == Head(e.gs)
               v == Value(g)
               rest == Enumeration(Tail(e.gs))
           IN /\ AskedLevel(e) \in Level /\ AskedLevel(e).prefix = e.prefix
              /\ Head(AskedLevel(e).gs).kind = g.kind /\ v \in Symbol
              /\ Append(e.prefix, v) \in Seq(Symbol) /\ Cat(t, Token(g.kind, v)) \in Seq(Symbol)
              /\ rest \in Seq(Combo)
              /\ Remaining(e, t) = Cat(Extend(Append(e.prefix, v), Cat(t, Token(g.kind, v)), rest),
                                       Remaining(AskedLevel(e), t))
<1> DEFINE g == Head(e.gs)
           v == Value(g)
           rest == Enumeration(Tail(e.gs))
           a == Advanced(g)
           f == AskedLevel(e)
           hs == [e.gs EXCEPT ![1] = a]
<1>1. /\ e.prefix \in Seq(Symbol) /\ e.gs \in Seq(Running) /\ e.gs # <<>>
      /\ g \in Running /\ Tail(e.gs) \in Seq(Fresh) /\ e = [prefix |-> e.prefix, gs |-> e.gs]
      /\ rest \in Seq(Combo)
  BY LevelParts, EnumerationFresh
<1>2. /\ a \in Running /\ a.kind = g.kind /\ Begins(Left(g), v, Left(a))
  BY <1>1, RunningGoes DEF Goes
<1>3. v \in Symbol
  BY <1>2 DEF Begins
<1>4. f = [prefix |-> e.prefix, gs |-> hs]
  <2>1. g = e.gs[1]
    BY <1>1
  <2>2. f = [e EXCEPT !.gs = [e.gs EXCEPT ![1] = Advanced(e.gs[1])]]
    BY <1>1 DEF AskedLevel
  <2> QED
    BY <1>1, <2>1, <2>2
<1> HIDE DEF a
<1>5. /\ hs \in Seq(Running) /\ hs # <<>> /\ Head(hs) = a /\ Tail(hs) = Tail(e.gs)
  <2>1. 1 \in 1..Len(e.gs) /\ Len(e.gs) \in Nat
    BY <1>1
  <2>2. /\ hs \in Seq(Running) /\ Len(hs) = Len(e.gs)
        /\ \A j \in 1..Len(e.gs) : hs[j] = IF j = 1 THEN a ELSE e.gs[j]
    BY <1>1, <1>2, <2>1, ExceptSeq
  <2> HIDE DEF hs
  <2>3. hs # <<>> /\ Head(hs) = a
    BY <2>1, <2>2
  <2>4. /\ Tail(hs) \in Seq(Running) /\ Len(Tail(hs)) = Len(hs) - 1
        /\ \A i \in 1..Len(Tail(hs)) : Tail(hs)[i] = hs[i + 1]
    BY <2>2, <2>3, HeadTailProperties
  <2>5. /\ Tail(e.gs) \in Seq(Running) /\ Len(Tail(e.gs)) = Len(e.gs) - 1
        /\ \A i \in 1..Len(Tail(e.gs)) : Tail(e.gs)[i] = e.gs[i + 1]
    BY <1>1, HeadTailProperties
  <2>6. \A i \in 1..(Len(e.gs) - 1) : i + 1 \in 1..Len(e.gs) /\ i + 1 # 1
    BY <2>1
  <2>7. Tail(hs) = Tail(e.gs)
    <3> DEFINE x == Tail(hs)
               y == Tail(e.gs)
    <3>1. x \in Seq(Running) /\ y \in Seq(Running) /\ Len(x) = Len(y)
      BY <2>2, <2>4, <2>5
    <3>2. ASSUME NEW i \in 1..Len(x) PROVE x[i] = y[i]
      <4>1. i \in 1..(Len(e.gs) - 1) /\ x[i] = hs[i + 1] /\ y[i] = e.gs[i + 1]
        BY <2>2, <2>4, <2>5, <3>1
      <4> QED
        BY <2>2, <2>6, <4>1
    <3> HIDE DEF x, y
    <3>3. x = y
      BY <3>1, <3>2, SeqEqual
    <3> QED
      BY <3>3 DEF x, y
  <2> QED
    BY <2>2, <2>3, <2>7
<1> HIDE DEF hs, f, v, g, rest
<1>6. f.prefix = e.prefix /\ f.gs = hs /\ f \in Level
  <2>1. Tail(hs) \in Seq(Fresh)
    BY <1>1, <1>5
  <2> QED
    BY <1>1, <1>4, <1>5, <2>1 DEF Level
<1>7. Append(e.prefix, v) \in Seq(Symbol) /\ Cat(t, Token(g.kind, v)) \in Seq(Symbol)
  BY <1>1, <1>3, AppendProperties, TokenType, CatType
<1>8. Extend(e.prefix, t, Product(g.kind, Left(g), rest))
        = Cat(Extend(Append(e.prefix, v), Cat(t, Token(g.kind, v)), rest),
              Extend(e.prefix, t, Product(g.kind, Left(a), rest)))
  BY <1>1, <1>2, ExtendProduct
<1>9. /\ Remaining(e, t) = Extend(e.prefix, t, Product(g.kind, Left(g), rest))
      /\ Remaining(f, t) = Extend(e.prefix, t, Product(g.kind, Left(a), rest))
  BY <1>2, <1>5, <1>6 DEF Remaining, g, rest
<1>10. Remaining(e, t)
        = Cat(Extend(Append(e.prefix, v), Cat(t, Token(g.kind, v)), rest), Remaining(f, t))
  BY <1>8, <1>9
<1> QED
  BY <1>1, <1>2, <1>3, <1>5, <1>6, <1>7, <1>10 DEF f, g, v, rest

\* The machine of a pattern is to give all of its combinations.
LEMMA PatternLeaves ==
    ASSUME NEW gs \in Seq(Fresh), gs # <<>>
    PROVE  Leaves(make_glob_generator(gs), Enumeration(gs))
<1> DEFINE e == [prefix |-> <<>>, gs |-> gs]
           m == make_glob_generator(gs)
           r == Cat(Remaining(e, <<>>), Under(<<>>))
           none == <<>>
<1>1. gs \in Seq(Running)
  <2>1. Fresh \subseteq Running
    BY FreshRuns
  <2> QED
    BY <2>1, SeqMonotonic
<1>2. e \in Level
  BY <1>1 DEF Level
<1>3. Ledger(<<>>, <<>>, <<>>)
  BY DEF Ledger
<1>4. <<>> \in Seq(Symbol)
  OBVIOUS
<1>5. Ledger(Append(<<>>, e), Append(<<>>, none), Append(<<>>, r)) /\ r \in Seq(Combo)
  <2> HIDE DEF e
  <2> QED
    BY <1>2, <1>3, <1>4, LedgerPush
<1>6. r = Enumeration(gs)
  <2>1. Head(gs) \in Fresh /\ Tail(gs) \in Seq(Fresh)
    OBVIOUS
  <2>2. Left(Head(gs)) = Values(Head(gs))
    BY <2>1, FreshRuns
  <2>3. Enumeration(gs) = Product(Head(gs).kind, Values(Head(gs)), Enumeration(Tail(gs)))
    BY EnumerationFront
  <2>4. Remaining(e, <<>>) = Extend(<<>>, <<>>, Enumeration(gs))
    BY <2>2, <2>3 DEF Remaining
  <2>5. Enumeration(gs) \in Seq(Combo)
    BY EnumerationFresh
  <2>6. Remaining(e, <<>>) = Enumeration(gs)
    BY <2>4, <2>5, ExtendNothing
  <2>7. Under(<<>>) = <<>>
    BY DEF Under
  <2> QED
    BY <2>5, <2>6, <2>7, CatEmpty
<1>7. m = [stack |-> <<e>>, tokens |-> <<>>]
  BY DEF make_glob_generator
<1> HIDE DEF e, r, m
<1>8. /\ <<e>> = Append(<<>>, e)
      /\ Last(Append(<<>>, none)) = <<>> /\ Under(Append(<<>>, r)) = r
  BY DEF Last, Under
<1>9. m.stack = Append(<<>>, e) /\ m.tokens = <<>>
  BY <1>7, <1>8
<1> QED
  BY <1>4, <1>5, <1>6, <1>7, <1>8, <1>9 DEF Leaves, m

\* What is known of a machine that goes on.
LEMMA MachineParts ==
    ASSUME NEW m, NEW r, Leaves(m, r), m.stack # <<>>
    PROVE  \E ts, rem :
        /\ Ledger(m.stack, ts, rem) /\ r = Last(rem) /\ m.tokens = Last(ts)
        /\ rem # <<>> /\ ts # <<>>
        /\ Ledger(Front(m.stack), Front(ts), Front(rem))
        /\ Top(m) \in Level /\ m.tokens \in Seq(Symbol) /\ Under(Front(rem)) \in Seq(Combo)
        /\ r = Cat(Remaining(Top(m), m.tokens), Under(Front(rem)))
        /\ Front(m.stack) # <<>> => /\ Front(ts) # <<>> /\ Front(rem) # <<>>
                                    /\ \E v \in Symbol : m.tokens = Cat(Last(Front(ts)),
                                            Token(Head(Last(Front(m.stack)).gs).kind, v))
        /\ Front(m.stack) = <<>> => Front(rem) = <<>>
<1>1. PICK ts, rem : /\ Ledger(m.stack, ts, rem) /\ r = Under(rem)
                     /\ m.tokens = Last(ts)
  BY DEF Leaves
<1>2. rem # <<>> /\ ts # <<>>
  BY <1>1 DEF Ledger
<1>3. r = Last(rem)
  BY <1>1, <1>2 DEF Under
<1> QED
  BY <1>1, <1>2, <1>3, LedgerFront DEF Top

\* The token that a value gives.
LEMMA TokenGiven ==
    ASSUME NEW g
    PROVE  AsToken(g) = Token(g.kind, Value(g))
BY DEF AsToken, Token

\* The generator on top gives a value: the stack with it in its new state.
LEMMA StackAsked ==
    ASSUME NEW m, NEW r, Leaves(m, r), m.stack # <<>>, Yields(Front1(m))
    PROVE  LET e == Top(m)
               g == Front1(m)
               p == Append(e.prefix, Value(g))
               t == Cat(m.tokens, Token(g.kind, Value(g)))
               rest == Enumeration(Tail(e.gs))
           IN \E ts, rem :
                /\ Ledger(Asked(m), ts, rem) /\ Last(ts) = m.tokens /\ Asked(m) # <<>>
                /\ Last(Asked(m)) \in Level /\ Head(Last(Asked(m)).gs).kind = g.kind
                /\ e \in Level /\ Value(g) \in Symbol
                /\ p \in Seq(Symbol) /\ t \in Seq(Symbol) /\ rest \in Seq(Combo)
                /\ Under(rem) \in Seq(Combo)
                /\ r = Cat(Extend(p, t, rest), Under(rem))
<1> DEFINE e == Top(m)
           g == Front1(m)
           v == Value(g)
           f == AskedLevel(e)
           p == Append(e.prefix, v)
           t == Cat(m.tokens, Token(g.kind, v))
           rest == Enumeration(Tail(e.gs))
           fs == Front(m.stack)
<1>1. PICK ts, rem :
        /\ Ledger(m.stack, ts, rem) /\ r = Last(rem) /\ m.tokens = Last(ts)
        /\ Ledger(fs, Front(ts), Front(rem))
        /\ e \in Level /\ m.tokens \in Seq(Symbol) /\ Under(Front(rem)) \in Seq(Combo)
        /\ r = Cat(Remaining(e, m.tokens), Under(Front(rem)))
        /\ fs # <<>> => \E w \in Symbol : m.tokens = Cat(Last(Front(ts)),
                                            Token(Head(Last(fs).gs).kind, w))
  BY MachineParts
<1> DEFINE ft == Front(ts)
           fr == Front(rem)
           under == Under(fr)
           q == Cat(Remaining(f, m.tokens), under)
<1>2. g = Head(e.gs)
  BY DEF Front1
<1>3. /\ f \in Level /\ Head(f.gs).kind = g.kind /\ v \in Symbol
      /\ p \in Seq(Symbol) /\ t \in Seq(Symbol) /\ rest \in Seq(Combo)
      /\ Remaining(e, m.tokens) = Cat(Extend(p, t, rest), Remaining(f, m.tokens))
  BY <1>1, <1>2, LevelAsked
<1>4. Asked(m) = Append(fs, f)
  BY DEF Asked, AskedLevel
<1> HIDE DEF e, g, v, f, p, t, rest, fs, ft, fr
<1>5. Ledger(Append(fs, f), Append(ft, m.tokens), Append(fr, q)) /\ q \in Seq(Combo)
  BY <1>1, <1>3, LedgerPush DEF ft, fr
<1>6. /\ fs \in Seq(Level) /\ ft \in Seq(Seq(Symbol)) /\ fr \in Seq(Seq(Combo))
  BY <1>1 DEF Ledger, ft, fr
<1>7. /\ Last(Append(fs, f)) = f /\ Append(fs, f) # <<>>
      /\ Last(Append(ft, m.tokens)) = m.tokens
      /\ Last(Append(fr, q)) = q /\ Append(fr, q) # <<>>
  <2>1. q \in Seq(Combo)
    BY <1>5
  <2> HIDE DEF q
  <2> QED
    BY <1>1, <1>3, <1>6, <2>1, FrontAppend
<1>8. Under(Append(fr, q)) = q
  <2> HIDE DEF q
  <2> QED
    BY <1>7 DEF Under
<1>9. r = Cat(Extend(p, t, rest), q)
  <2> DEFINE x == Extend(p, t, rest)
             y == Remaining(f, m.tokens)
  <2>1. x \in Seq(Combo) /\ y \in Seq(Combo) /\ under \in Seq(Combo)
    BY <1>1, <1>3, ExtendType, RemainingType DEF fr
  <2>2. r = Cat(Cat(x, y), under)
    BY <1>1, <1>3 DEF fr
  <2> HIDE DEF x, y, under
  <2>3. r = Cat(x, Cat(y, under))
    BY <2>1, <2>2, CatAssociative
  <2> QED
    BY <2>3 DEF x, y
<1> HIDE DEF q
<1>10. /\ Ledger(Asked(m), Append(ft, m.tokens), Append(fr, q))
       /\ Last(Append(ft, m.tokens)) = m.tokens /\ Asked(m) # <<>>
       /\ Last(Asked(m)) \in Level /\ Head(Last(Asked(m)).gs).kind = g.kind
       /\ e \in Level /\ v \in Symbol
       /\ p \in Seq(Symbol) /\ t \in Seq(Symbol) /\ rest \in Seq(Combo)
       /\ Under(Append(fr, q)) \in Seq(Combo)
       /\ r = Cat(Extend(p, t, rest), Under(Append(fr, q)))
  BY <1>1, <1>3, <1>4, <1>5, <1>7, <1>8, <1>9
<1> QED
  BY <1>10 DEF e, g, v, p, t, rest

\* A result is the first of the combinations that are left.
LEMMA MachineReturns ==
    ASSUME NEW m, NEW r, Leaves(m, r), Returns(m)
    PROVE  /\ Result(m) \in Combo
           /\ \E others \in Seq(Combo) :
                r = Cat(<<Result(m)>>, others) /\ Leaves(AfterResult(m), others)
<1> DEFINE e == Top(m)
           g == Front1(m)
           p == Append(e.prefix, Value(g))
           t == Cat(m.tokens, Token(g.kind, Value(g)))
           rest == Enumeration(Tail(e.gs))
<1>1. m.stack # <<>> /\ Yields(g) /\ Len(e.gs) = 1
  BY DEF Returns
<1>2. PICK ts, rem :
                /\ Ledger(Asked(m), ts, rem) /\ Last(ts) = m.tokens /\ Asked(m) # <<>>
                /\ e \in Level
                /\ p \in Seq(Symbol) /\ t \in Seq(Symbol) /\ rest \in Seq(Combo)
                /\ Under(rem) \in Seq(Combo)
                /\ r = Cat(Extend(p, t, rest), Under(rem))
  BY <1>1, StackAsked
<1>3. rest = <<Nothing>>
  <2>1. e.gs \in Seq(Running) /\ e.gs # <<>>
    BY <1>2, LevelParts
  <2>2. Tail(e.gs) = <<>>
    <3>1. Tail(e.gs) \in Seq(Running) /\ Len(Tail(e.gs)) = 0
      BY <1>1, <2>1, HeadTailProperties
    <3> QED
      BY <3>1, EmptySeq
  <2> QED
    BY <2>2, EnumerationNone
<1>4. Result(m) = [result |-> p, tokens |-> t]
  BY TokenGiven, Zenon DEF Result, Cat
<1>5. r = Cat(<<Result(m)>>, Under(rem))
  BY <1>2, <1>3, <1>4, ExtendLast
<1>6. Result(m) \in Combo
  <2> HIDE DEF p, t
  <2> QED
    BY <1>2, <1>4 DEF Combo
<1>7. Leaves(AfterResult(m), Under(rem))
  <2>1. m = [stack |-> m.stack, tokens |-> m.tokens] /\ m.tokens \in Seq(Symbol)
    BY DEF Leaves
  <2>2. AfterResult(m) = [stack |-> Asked(m), tokens |-> m.tokens]
    BY <2>1 DEF AfterResult
  <2>3. AfterResult(m).stack = Asked(m) /\ AfterResult(m).tokens = m.tokens
    BY <2>2
  <2> QED
    BY <1>2, <2>1, <2>2, <2>3 DEF Leaves
<1> QED
  BY <1>2, <1>5, <1>6, <1>7

\* Going on to the next generator leaves the same combinations.
LEMMA MachineDescends ==
    ASSUME NEW m, NEW r, Leaves(m, r), Descends(m)
    PROVE  Leaves(AfterDescent(m), r)
<1> DEFINE e == Top(m)
           g == Front1(m)
           v == Value(g)
           p == Append(e.prefix, v)
           t == Cat(m.tokens, Token(g.kind, v))
           hs == Tail(e.gs)
           rest == Enumeration(hs)
           f == [prefix |-> p, gs |-> hs]
<1>1. m.stack # <<>> /\ Yields(g) /\ Len(e.gs) > 1
  BY DEF Descends
<1>2. PICK ts, rem :
                /\ Ledger(Asked(m), ts, rem) /\ Last(ts) = m.tokens /\ Asked(m) # <<>>
                /\ Last(Asked(m)) \in Level /\ Head(Last(Asked(m)).gs).kind = g.kind
                /\ e \in Level /\ v \in Symbol
                /\ p \in Seq(Symbol) /\ t \in Seq(Symbol) /\ rest \in Seq(Combo)
                /\ Under(rem) \in Seq(Combo)
                /\ r = Cat(Extend(p, t, rest), Under(rem))
  BY <1>1, StackAsked
<1>3. hs \in Seq(Fresh) /\ hs # <<>>
  <2>1. e.gs \in Seq(Running) /\ e.gs # <<>> /\ hs \in Seq(Fresh)
    BY <1>2, LevelParts
  <2>2. Len(hs) = Len(e.gs) - 1
    BY <2>1
  <2> QED
    BY <1>1, <2>1, <2>2
<1> HIDE DEF e, g, v, p, t, hs
<1>4. f \in Level
  <2>1. hs \in Seq(Running)
    <3>1. Fresh \subseteq Running
      BY FreshRuns
    <3> QED
      BY <1>3, <3>1, SeqMonotonic
  <2>2. Tail(hs) \in Seq(Fresh)
    BY <1>3
  <2> QED
    BY <1>2, <1>3, <2>1, <2>2 DEF Level
<1>5. Remaining(f, t) = Extend(p, t, rest)
  <2>1. Head(hs) \in Fresh
    BY <1>3
  <2>2. Left(Head(hs)) = Values(Head(hs))
    BY <2>1, FreshRuns
  <2>3. Enumeration(hs) = Product(Head(hs).kind, Values(Head(hs)), Enumeration(Tail(hs)))
    BY <1>3, EnumerationFront
  <2> QED
    BY <2>2, <2>3 DEF Remaining
<1> HIDE DEF f, rest
<1> DEFINE q == Cat(Remaining(f, t), Under(rem))
           as == Asked(m)
<1>6. r = q
  BY <1>2, <1>5
<1> HIDE DEF as
<1>7. Ledger(Append(as, f), Append(ts, t), Append(rem, q)) /\ q \in Seq(Combo)
  <2>1. t = Cat(Last(ts), Token(Head(Last(as).gs).kind, v)) /\ v \in Symbol
    BY <1>2 DEF t, as
  <2>2. Ledger(as, ts, rem)
    BY <1>2 DEF as
  <2> QED
    BY <1>2, <1>4, <2>1, <2>2, LedgerPush
<1> HIDE DEF q
<1>8. ts \in Seq(Seq(Symbol)) /\ rem \in Seq(Seq(Combo))
  BY <1>2 DEF Ledger
<1>9. Last(Append(ts, t)) = t /\ Last(Append(rem, q)) = q /\ Append(rem, q) # <<>>
  BY <1>2, <1>7, <1>8, FrontAppend
<1>10. AfterDescent(m) = [stack |-> Append(as, f), tokens |-> t]
  BY TokenGiven, Zenon DEF AfterDescent, as, f, t, p, g, v, e, hs, Cat
<1>11. AfterDescent(m).stack = Append(as, f) /\ AfterDescent(m).tokens = t
  <2> DEFINE longer == Append(as, f)
  <2> HIDE DEF longer
  <2>1. AfterDescent(m) = [stack |-> longer, tokens |-> t]
    BY <1>10 DEF longer
  <2>2. AfterDescent(m).stack = longer /\ AfterDescent(m).tokens = t
    BY <2>1
  <2> QED
    BY <2>2 DEF longer
<1>12. r = Under(Append(rem, q))
  BY <1>6, <1>9 DEF Under
<1> QED
  BY <1>2, <1>7, <1>9, <1>10, <1>11, <1>12 DEF Leaves

\* A token at the end is dropped.
LEMMA TokenDropped ==
    ASSUME NEW t \in Seq(Symbol), NEW kind, NEW v \in Symbol
    PROVE  t = IF kind = "static" THEN Cat(t, Token(kind, v)) ELSE Front(Cat(t, Token(kind, v)))
<1>1. CASE kind = "static"
  BY <1>1, CatEmpty DEF Token
<1>2. CASE kind # "static"
  <2>1. Append(t, v) = Cat(t, <<v>>)
    BY AppendIsConcat DEF Cat
  <2>2. Token(kind, v) = <<v>>
    BY <1>2 DEF Token
  <2>3. Front(Append(t, v)) = t
    BY FrontAppend
  <2> QED
    BY <1>2, <2>1, <2>2, <2>3
<1> QED
  BY <1>1, <1>2

\* Going back leaves the same combinations.
LEMMA MachineRetreats ==
    ASSUME NEW m, NEW r, Leaves(m, r), Retreats(m)
    PROVE  Leaves(Popped(m), r)
<1> DEFINE e == Top(m)
           g == Front1(m)
           fs == Front(m.stack)
<1>1. m.stack # <<>> /\ ~ Yields(g)
  BY DEF Retreats
<1>2. PICK ts, rem :
        /\ Ledger(fs, Front(ts), Front(rem))
        /\ e \in Level /\ m.tokens \in Seq(Symbol) /\ Under(Front(rem)) \in Seq(Combo)
        /\ r = Cat(Remaining(e, m.tokens), Under(Front(rem)))
        /\ fs # <<>> => /\ Front(ts) # <<>>
                        /\ \E w \in Symbol : m.tokens = Cat(Last(Front(ts)),
                                            Token(Head(Last(fs).gs).kind, w))
  BY <1>1, MachineParts
<1> DEFINE ft == Front(ts)
           fr == Front(rem)
           kind == Head(Last(fs).gs).kind
<1>3. r = Under(fr)
  <2>1. g = Head(e.gs) /\ g \in Running
    BY <1>2, LevelParts DEF Front1
  <2>2. Left(g) = <<>>
    BY <1>1, <2>1, RunningGoes DEF Goes
  <2>3. Remaining(e, m.tokens) = Extend(e.prefix, m.tokens, <<>>)
    BY <2>1, <2>2, ProductNone DEF Remaining
  <2>4. Extend(e.prefix, m.tokens, <<>>) = <<>>
    BY DEF Extend
  <2> QED
    BY <1>2, <2>3, <2>4, CatEmpty
<1>4. Popped(m) = [stack |-> fs, tokens |-> IF fs = <<>> \/ kind = "static"
                                            THEN m.tokens ELSE Front(m.tokens)]
  BY DEF Popped
<1> HIDE DEF fs, ft, fr, e, g
<1>5. fs # <<>> => Popped(m).tokens = Last(ft)
  <2> SUFFICES ASSUME fs # <<>> PROVE Popped(m).tokens = Last(ft)
    OBVIOUS
  <2>1. PICK w \in Symbol : m.tokens = Cat(Last(ft), Token(kind, w))
    BY <1>2 DEF ft
  <2>2. Last(ft) \in Seq(Symbol)
    <3>1. ft \in Seq(Seq(Symbol)) /\ ft # <<>>
      BY <1>2 DEF Ledger, ft
    <3> QED
      BY <3>1, FrontLast
  <2> HIDE DEF kind
  <2>3. Last(ft) = IF kind = "static" THEN m.tokens ELSE Front(m.tokens)
    BY <2>1, <2>2, TokenDropped
  <2> QED
    BY <1>4, <2>3
<1>6. Popped(m).stack = fs /\ Popped(m) = [stack |-> Popped(m).stack, tokens |-> Popped(m).tokens]
  BY <1>4
<1>7. Popped(m).tokens \in Seq(Symbol)
  <2>1. CASE fs = <<>>
    BY <1>2, <1>4, <2>1
  <2>2. CASE fs # <<>>
    <3>1. ft \in Seq(Seq(Symbol)) /\ ft # <<>>
      BY <1>2, <2>2 DEF Ledger, ft
    <3> QED
      BY <1>5, <2>2, <3>1, FrontLast
  <2> QED
    BY <2>1, <2>2
<1> QED
  BY <1>2, <1>3, <1>5, <1>6, <1>7 DEF Leaves, ft, fr

\* A machine without a stack has nothing left.
LEMMA MachineEnds ==
    ASSUME NEW m, NEW r, Leaves(m, r), m.stack = <<>>
    PROVE  r = <<>>
<1>1. PICK ts, rem : Ledger(m.stack, ts, rem) /\ r = Under(rem)
  BY DEF Leaves
<1>2. rem = <<>>
  BY <1>1 DEF Ledger
<1> QED
  BY <1>1, <1>2 DEF Under

\* What is left are combinations.
LEMMA LeavesType ==
    ASSUME NEW m, NEW r, Leaves(m, r)
    PROVE  r \in Seq(Combo)
<1>1. PICK ts, rem : Ledger(m.stack, ts, rem) /\ r = Under(rem)
  BY DEF Leaves
<1>2. rem \in Seq(Seq(Combo))
  BY <1>1 DEF Ledger
<1> QED
  BY <1>1, <1>2, FrontLast DEF Under

-------------------------------------------------------------------------------
(***************************************************************************)
(* What the URLs of a command line stand for.                              *)
(***************************************************************************)
Naming == {"output", "remote-name"}

\* The k-th of --output and --remote-name is found where it is expected.
LEMMA OutputsChosen ==
    ASSUME NEW A, args \in Seq(A), NEW k
    PROVE  OutputFor(k) = Chosen(k)
<1> DEFINE f == Outputs
           P == Places(Naming)
           Rank(i) == Cardinality({j \in 1..i : j \in P})
           mine == {i \in DOMAIN args :
                    /\ Opt(i) \in {"output", "remote-name"}
                    /\ Cardinality({j \in 1..i : Opt(j) \in {"output", "remote-name"}}) = k
                    /\ Opt(i) = "output"}
<1>1. /\ f \in Seq(P) /\ {f[n] : n \in DOMAIN f} = P
      /\ \A n \in DOMAIN f : Rank(f[n]) = n
  BY OccurrencesListed DEF Outputs, Naming
<1>2. ASSUME NEW i \in DOMAIN args
      PROVE  {j \in 1..i : Opt(j) \in {"output", "remote-name"}} = {j \in 1..i : j \in P}
  <2>1. \A j \in 1..i : j \in DOMAIN args
    OBVIOUS
  <2> QED
    BY <2>1 DEF Places, Naming
<1>3. mine = {i \in P : Rank(i) = k /\ Opt(i) = "output"}
  BY <1>2 DEF Places, Naming
<1>4. OutputFor(k) = IF k \in DOMAIN f /\ Opt(f[k]) = "output" THEN Val(f[k]) ELSE <<>>
  BY DEF OutputFor
<1>5. Chosen(k) = IF mine = {} THEN <<>> ELSE Val(CHOOSE i \in mine : TRUE)
  BY DEF Chosen
<1> HIDE DEF f, P, Rank, mine
<1>6. CASE k \in DOMAIN f /\ Opt(f[k]) = "output"
  <2>1. f[k] \in P /\ Rank(f[k]) = k
    BY <1>1, <1>6
  <2>2. ASSUME NEW i \in mine PROVE i = f[k]
    <3>1. PICK n \in DOMAIN f : f[n] = i
      BY <1>1, <1>3
    <3> QED
      BY <1>1, <1>3, <3>1
  <2>3. mine = {f[k]}
    BY <1>3, <1>6, <2>1, <2>2
  <2>4. (CHOOSE i \in mine : TRUE) = f[k]
    BY <2>3
  <2> QED
    BY <1>4, <1>5, <1>6, <2>3, <2>4
<1>7. CASE ~ (k \in DOMAIN f /\ Opt(f[k]) = "output")
  <2>1. ASSUME NEW i \in mine PROVE FALSE
    <3>1. PICK n \in DOMAIN f : f[n] = i
      BY <1>1, <1>3
    <3> QED
      BY <1>1, <1>3, <1>7, <3>1
  <2> QED
    BY <1>4, <1>5, <1>7, <2>1
<1> QED
  BY <1>6, <1>7

\* A text is its only combination.
LEMMA EnumerationText ==
    ASSUME NEW s \in STRING
    PROVE  /\ <<make_static_gen(s)>> \in Seq(Fresh)
           /\ Enumeration(<<make_static_gen(s)>>) = <<[result |-> <<Text(s)>>, tokens |-> <<>>]>>
<1> DEFINE g == make_static_gen(s)
           v == Text(s)
           r == [result |-> <<v>>, tokens |-> <<>>]
<1>1. g.kind = "static" /\ g.text = s /\ g \in Generator
  BY DEF make_static_gen, Generator
<1>2. Sane(g)
  BY <1>1 DEF Sane
<1>3. Values(g) = <<v>>
  BY <1>1 DEF Values
<1> HIDE DEF g
<1>4. g \in Fresh
  BY <1>1, <1>2 DEF Fresh
<1>5. <<g>> \in Seq(Fresh) /\ <<g>> # <<>> /\ Head(<<g>>) = g /\ Tail(<<g>>) = <<>>
  BY <1>4
<1>6. Enumeration(<<g>>) = Product("static", <<v>>, <<Nothing>>)
  BY <1>1, <1>3, <1>5, EnumerationFront, EnumerationNone
<1>7. v \in Symbol
  BY DEF Symbol
<1> HIDE DEF v
<1>8. Product("static", <<v>>, <<Nothing>>)
        = Cat(Row("static", v, <<Nothing>>), Product("static", <<>>, <<Nothing>>))
  <2> DEFINE one == <<v>>
             kind == "static"
             none == <<>>
             rest == <<Nothing>>
  <2>1. one \in Seq(Symbol) /\ none \in Seq(Symbol) /\ Len(one) = Len(none) + 1 /\ one[1] = v
        /\ Len(none) = 0
    BY <1>7
  <2>2. rest \in Seq(Combo)
    BY NothingType
  <2> HIDE DEF one, none, rest, kind
  <2>3. Product(kind, one, rest) = Cat(Row(kind, one[1], rest), Product(kind, none, rest))
    <3>1. \A j \in 1..Len(none) : one[j + 1] = none[j]
      BY <2>1
    <3> QED
      BY <2>1, <2>2, <3>1, ProductFront
  <2> QED
    BY <2>1, <2>3 DEF one, none, rest, kind
<1>9. Product("static", <<>>, <<Nothing>>) = <<>>
  BY ProductNone
<1>10. Row("static", v, <<Nothing>>) = <<r>>
  <2>1. Prepend("static", v, Nothing) = [result |-> Cat(<<v>>, <<>>), tokens |-> Cat(<<>>, <<>>)]
    BY DEF Prepend, Nothing, Cat
  <2>2. Cat(<<v>>, <<>>) = <<v>> /\ Cat(<<>>, <<>>) = <<>>
    BY <1>7 DEF Cat
  <2>3. Row("static", v, <<Nothing>>) = <<Prepend("static", v, Nothing)>>
    BY DEF Row
  <2> QED
    BY <2>1, <2>2, <2>3
<1>11. Row("static", v, <<Nothing>>) \in Seq(Combo)
  BY <1>7, NothingType, RowType
<1>12. Cat(Row("static", v, <<Nothing>>), <<>>) = Row("static", v, <<Nothing>>)
  BY <1>11, CatEmpty
<1> QED
  BY <1>5, <1>6, <1>8, <1>9, <1>10, <1>12 DEF g, v

\* Where the k-th URL is.
LEMMA UrlAt ==
    ASSUME NEW A, args \in Seq(A), NEW o, NEW k \in DOMAIN Vals(o)
    PROVE  \E i \in DOMAIN args : Opt(i) = o /\ Vals(o)[k] = Val(i)
<1> DEFINE f == Of(o)
<1>1. f \in Seq(Places({o})) /\ {f[n] : n \in DOMAIN f} = Places({o})
  BY OccurrencesListed DEF Of
<1>2. k \in DOMAIN f /\ Vals(o)[k] = Val(f[k])
  BY DEF Vals
<1> HIDE DEF f
<1> QED
  BY <1>1, <1>2 DEF Places

\* Every URL's machine is to give what the URL stands for.
LEMMA UrlLeaves ==
    ASSUME args \in Seq(Given), ~ Refused, SanePatterns, NEW k \in DOMAIN Vals("url")
    PROVE  Leaves(UrlGen(Vals("url")[k]), Meant(k)) /\ Meant(k) \in Seq(Combo)
<1> DEFINE v == Vals("url")[k]
<1>1. PICK i \in DOMAIN args : Opt(i) = "url" /\ v = Val(i)
  BY UrlAt
<1>2. PICK name \in DOMAIN Arguments : args[i] = Arguments[name]
  <2>1. args[i] \in Given
    OBVIOUS
  <2> QED
    BY <2>1 DEF Given
<1>3. v.text \in STRING /\ (args[i].ok => v.gs \in Seq(Generator) \ {<<>>})
  BY <1>1, <1>2, PatternsAssumption DEF Opt, Val
<1> HIDE DEF v
<1>4. CASE contains("globoff")
  <2> DEFINE gs == <<make_static_gen(v.text)>>
  <2>1. gs \in Seq(Fresh) /\ Enumeration(gs) = Meant(k)
    BY <1>3, <1>4, EnumerationText DEF Meant, v
  <2>2. UrlGen(v) = make_glob_generator(gs)
    BY <1>4 DEF UrlGen, make_oneshot_gen
  <2>3. gs # <<>>
    OBVIOUS
  <2> HIDE DEF gs
  <2> QED
    BY <2>1, <2>2, <2>3, PatternLeaves, LeavesType DEF v
<1>5. CASE ~ contains("globoff")
  <2>1. args[i].ok
    BY <1>1, <1>5 DEF Refused, BadValue, LookedAt
  <2> DEFINE gs == v.gs
  <2>2. gs \in Seq(Generator) /\ gs # <<>>
    BY <1>3, <2>1
  <2>3. \A g \in ToSet(gs) : Sane(g)
    BY <1>1, <2>1 DEF SanePatterns
  <2> HIDE DEF gs
  <2>4. gs \in Seq(Fresh)
    <3>1. \A n \in 1..Len(gs) : gs[n] \in Fresh
      BY <2>2, <2>3 DEF ToSet, Fresh
    <3> QED
      BY <2>2, <3>1
  <2>5. UrlGen(v) = make_glob_generator(gs) /\ Meant(k) = Enumeration(gs)
    BY <1>5 DEF UrlGen, Meant, gs, v
  <2> QED
    BY <2>2, <2>4, <2>5, PatternLeaves, LeavesType DEF v
<1> QED
  BY <1>4, <1>5

-------------------------------------------------------------------------------
(***************************************************************************)
(* What is produced of a pattern.                                          *)
(***************************************************************************)
Item == [url : Seq(Symbol), output : {interpolate(Chosen(k), t) : k \in Nat, t \in Seq(Symbol)}]

NamedItem(format, c) == [url |-> c.result, output |-> interpolate(format, c.tokens)]
Named(format, cs) == [n \in DOMAIN cs |-> NamedItem(format, cs[n])]

\* What is produced has a URL and an output.
LEMMA NamedType ==
    ASSUME NEW k \in Nat, NEW cs \in Seq(Combo)
    PROVE  /\ Named(Chosen(k), cs) \in Seq(Item) /\ Len(Named(Chosen(k), cs)) = Len(cs)
           /\ \A c \in Combo : NamedItem(Chosen(k), c) \in Item
<1>1. ASSUME NEW c \in Combo PROVE NamedItem(Chosen(k), c) \in Item
  <2>1. c.result \in Seq(Symbol) /\ c.tokens \in Seq(Symbol)
    BY DEF Combo
  <2> QED
    BY <2>1 DEF NamedItem, Item
<1>2. \A n \in 1..Len(cs) : NamedItem(Chosen(k), cs[n]) \in Item
  BY <1>1
<1>3. DOMAIN cs = 1..Len(cs) /\ Len(cs) \in Nat
  OBVIOUS
<1> QED
  BY <1>1, <1>2, <1>3 DEF Named

\* The first one and the others.
LEMMA NamedFront ==
    ASSUME NEW k \in Nat, NEW c \in Combo, NEW others \in Seq(Combo)
    PROVE  Named(Chosen(k), Cat(<<c>>, others))
            = Cat(<<NamedItem(Chosen(k), c)>>, Named(Chosen(k), others))
<1> DEFINE one == <<c>>
           item == <<NamedItem(Chosen(k), c)>>
           more == Named(Chosen(k), others)
           all == Cat(one, others)
           a == Named(Chosen(k), all)
           b == Cat(item, more)
<1>1. one \in Seq(Combo) /\ Len(one) = 1 /\ one[1] = c
  OBVIOUS
<1>2. item \in Seq(Item) /\ Len(item) = 1 /\ item[1] = NamedItem(Chosen(k), c)
  BY NamedType
<1>3. more \in Seq(Item) /\ Len(more) = Len(others)
      /\ \A n \in 1..Len(others) : more[n] = NamedItem(Chosen(k), others[n])
  <2>1. DOMAIN others = 1..Len(others)
    OBVIOUS
  <2> QED
    BY <2>1, NamedType DEF Named
<1> HIDE DEF one, item, more
<1>4. /\ all \in Seq(Combo) /\ Len(all) = Len(one) + Len(others)
      /\ \A n \in 1..(Len(one) + Len(others)) :
            all[n] = IF n <= Len(one) THEN one[n] ELSE others[n - Len(one)]
  BY <1>1, CatElements
<1>5. /\ b \in Seq(Item) /\ Len(b) = Len(item) + Len(more)
      /\ \A n \in 1..(Len(item) + Len(more)) :
            b[n] = IF n <= Len(item) THEN item[n] ELSE more[n - Len(item)]
  <2>1. item \in Seq(Item) /\ more \in Seq(Item)
    BY <1>2, <1>3
  <2> QED
    BY <2>1, CatElements
<1> HIDE DEF all, b
<1>6. /\ a \in Seq(Item) /\ Len(a) = Len(all)
      /\ \A n \in 1..Len(all) : a[n] = NamedItem(Chosen(k), all[n])
  <2>1. DOMAIN all = 1..Len(all)
    BY <1>4
  <2> QED
    BY <1>4, <2>1, NamedType DEF Named
<1> HIDE DEF a
<1>7. ASSUME NEW n \in 1..Len(a) PROVE a[n] = b[n]
  <2>1. Len(others) \in Nat /\ n \in 1..(1 + Len(others)) /\ n \in 1..Len(all)
    BY <1>1, <1>4, <1>6
  <2>2. CASE n = 1
    BY <1>1, <1>2, <1>3, <1>4, <1>5, <1>6, <2>1, <2>2
  <2>3. CASE n # 1
    <3>1. ~ (n <= 1) /\ n - 1 \in 1..Len(others)
      BY <2>1, <2>3
    <3>2. all[n] = others[n - 1] /\ a[n] = NamedItem(Chosen(k), all[n])
      BY <1>1, <1>4, <1>6, <2>1, <3>1
    <3>3. b[n] = more[n - 1]
      BY <1>2, <1>3, <1>5, <2>1, <3>1
    <3> QED
      BY <1>3, <3>1, <3>2, <3>3
  <2> QED
    BY <2>2, <2>3
<1>8. Len(a) = Len(b)
  BY <1>1, <1>2, <1>3, <1>4, <1>5, <1>6
<1>9. a = b
  BY <1>5, <1>6, <1>7, <1>8, SeqEqual
<1> QED
  BY <1>9 DEF a, b, all, one, item, more

\* The URLs, what is produced of each of them, and of the last n of them.
Urls == Len(Vals("url"))
Chunk(k) == Named(Chosen(k), Meant(k))
Chunks(n) == [i \in 1..n |-> Chunk(Urls - n + i)]
Ahead(n) == FlattenSeq(Chunks(n))

\* A command line whose patterns are enumerated.
Fine == args \in Seq(Given) /\ ~ Refused /\ SanePatterns

\* There are finitely many URLs, counted from 1.
LEMMA UrlsDomain ==
    ASSUME NEW A, args \in Seq(A)
    PROVE  Urls \in Nat /\ DOMAIN Vals("url") = 1..Urls
<1>1. Of("url") \in Seq(Places({"url"}))
  BY OccurrencesListed DEF Of
<1>2. DOMAIN Of("url") = 1..Len(Of("url")) /\ Len(Of("url")) \in Nat
  BY <1>1
<1>3. DOMAIN Vals("url") = 1..Len(Of("url"))
  BY <1>2 DEF Vals
<1>4. Vals("url") = [k \in 1..Len(Of("url")) |-> Vals("url")[k]]
  BY <1>2 DEF Vals
<1>5. Len(Vals("url")) = Len(Of("url"))
  BY <1>2, <1>3, <1>4
<1> QED
  BY <1>2, <1>3, <1>5 DEF Urls

\* What is produced of some URLs.
LEMMA ChunksType ==
    ASSUME Fine, NEW n \in Nat, n <= Urls
    PROVE  /\ Chunks(n) \in Seq(Seq(Item)) /\ Len(Chunks(n)) = n /\ Ahead(n) \in Seq(Item)
           /\ \A k \in 1..Urls : Chunk(k) \in Seq(Item)
<1>1. Urls \in Nat /\ DOMAIN Vals("url") = 1..Urls
  BY UrlsDomain DEF Fine
<1>2. ASSUME NEW k \in 1..Urls PROVE Chunk(k) \in Seq(Item)
  <2>1. Meant(k) \in Seq(Combo)
    BY <1>1, UrlLeaves DEF Fine
  <2> QED
    BY <1>1, <2>1, NamedType DEF Chunk
<1>3. \A i \in 1..n : Urls - n + i \in 1..Urls
  BY <1>1
<1>4. \A i \in 1..n : Chunk(Urls - n + i) \in Seq(Item)
  BY <1>2, <1>3
<1>5. Chunks(n) \in Seq(Seq(Item)) /\ Len(Chunks(n)) = n
  BY <1>4 DEF Chunks
<1> QED
  BY <1>2, <1>5, FlattenSeqType DEF Ahead

\* Nothing is produced of no URLs.
LEMMA AheadNone == Ahead(0) = <<>>
<1>1. Chunks(0) = <<>>
  BY DEF Chunks
<1> QED
  BY <1>1 DEF Ahead, FlattenSeq

\* One URL more in front.
LEMMA AheadFront ==
    ASSUME Fine, NEW n \in Nat, n + 1 <= Urls
    PROVE  Ahead(n + 1) = Cat(Chunk(Urls - n), Ahead(n))
<1> DEFINE s == Chunks(n + 1)
           t == Chunks(n)
           a == Chunk(Urls - n)
<1>1. Urls \in Nat
  BY UrlsDomain DEF Fine
<1>2. s \in Seq(Seq(Item)) /\ Len(s) = n + 1
  BY <1>1, ChunksType
<1>3. t \in Seq(Seq(Item)) /\ Len(t) = n
  BY <1>1, ChunksType
<1>4. a \in Seq(Item)
  <2>1. Urls - n \in 1..Urls
    BY <1>1
  <2> QED
    BY <1>1, <2>1, ChunksType
<1>5. s[1] = a
  <2>1. Urls - (n + 1) + 1 = Urls - n /\ 1 \in 1..(n + 1)
    BY <1>1
  <2>2. s[1] = Chunk(Urls - (n + 1) + 1)
    BY <2>1 DEF Chunks
  <2> QED
    BY <2>1, <2>2
<1>6. ASSUME NEW i \in 1..Len(t) PROVE s[i + 1] = t[i]
  <2>1. i \in 1..n /\ i + 1 \in 1..(n + 1) /\ Urls - (n + 1) + (i + 1) = Urls - n + i
    BY <1>1, <1>3
  <2>2. s[i + 1] = Chunk(Urls - (n + 1) + (i + 1)) /\ t[i] = Chunk(Urls - n + i)
    BY <2>1 DEF Chunks
  <2> QED
    BY <2>1, <2>2
<1> HIDE DEF s, t, a
<1>7. FlattenSeq(s) = Cat(a, FlattenSeq(t))
  BY <1>2, <1>3, <1>4, <1>5, <1>6, FlattenFront
<1> QED
  BY <1>7 DEF Ahead, s, t, a

\* All of the URLs are what is expected.
LEMMA AheadAll ==
    ASSUME Fine
    PROVE  Ahead(Urls) = Expected
<1>1. Urls \in Nat /\ DOMAIN Vals("url") = 1..Urls
  BY UrlsDomain DEF Fine
<1>2. \A i \in 1..Urls : Urls - Urls + i = i
  BY <1>1
<1>3. Chunks(Urls) = [k \in DOMAIN Vals("url") |-> Chunk(k)]
  BY <1>1, <1>2 DEF Chunks
<1>4. Expected = FlattenSeq([k \in DOMAIN Vals("url") |-> Chunk(k)])
  BY DEF Expected, Chunk, Named, NamedItem
<1> QED
  BY <1>3, <1>4 DEF Ahead

-------------------------------------------------------------------------------
(***************************************************************************)
(* The generator of requests.                                              *)
(***************************************************************************)
IsInfo(r) ==
    r = [url_gen |-> r.url_gen, output |-> r.output, input |-> r.input, remotename |-> r.remotename]

\* rs are the infos of the last URLs, each with its own output.
AreInfos(rs) ==
    /\ \E S : rs \in Seq(S)
    /\ Len(rs) <= Urls
    /\ \A i \in 1..Len(rs) : IsInfo(rs[i]) /\ rs[i].output = Chosen(Urls - Len(rs) + i)

\* All but the first one have given no request, and what the first one has left and they
\* stand for is still to be produced.
Pending(rs, rest) ==
    /\ AreInfos(rs)
    /\ \A i \in 1..Len(rs) : i # 1 => rs[i].url_gen = UrlGen(Vals("url")[Urls - Len(rs) + i])
    /\ rs = <<>> => rest = <<>>
    /\ rs # <<>> => \E left :
        /\ Leaves(rs[1].url_gen, left)
        /\ rest = Cat(Named(Chosen(Urls - Len(rs) + 1), left), Ahead(Len(rs) - 1))

\* None of the infos has given a request.
LEMMA PendingFresh ==
    ASSUME Fine, NEW rs, AreInfos(rs),
           \A i \in 1..Len(rs) : rs[i].url_gen = UrlGen(Vals("url")[Urls - Len(rs) + i])
    PROVE  Pending(rs, Ahead(Len(rs)))
<1>1. Urls \in Nat /\ DOMAIN Vals("url") = 1..Urls
  BY UrlsDomain DEF Fine
<1>2. PICK S : rs \in Seq(S)
  BY DEF AreInfos
<1> DEFINE n == Len(rs)
           j == Urls - n + 1
<1>3. n \in Nat /\ n <= Urls /\ (rs = <<>> <=> n = 0)
  BY <1>2 DEF AreInfos
<1>4. CASE rs = <<>>
  BY <1>3, <1>4, AheadNone DEF Pending
<1>5. CASE rs # <<>>
  <2>1. j \in 1..Urls /\ n - 1 \in Nat /\ (n - 1) + 1 <= Urls /\ (n - 1) + 1 = n
        /\ Urls - (n - 1) = j /\ 1 \in 1..n
    BY <1>1, <1>3, <1>5
  <2>2. Leaves(rs[1].url_gen, Meant(j))
    BY <1>1, <2>1, UrlLeaves DEF Fine
  <2>3. Ahead((n - 1) + 1) = Cat(Chunk(Urls - (n - 1)), Ahead(n - 1))
    <3> DEFINE p == n - 1
    <3> HIDE DEF p
    <3>1. Ahead(p + 1) = Cat(Chunk(Urls - p), Ahead(p))
      BY <2>1, AheadFront DEF p
    <3> QED
      BY <3>1 DEF p
  <2>4. Ahead(n) = Cat(Named(Chosen(j), Meant(j)), Ahead(n - 1))
    BY <2>1, <2>3 DEF Chunk
  <2> QED
    BY <1>5, <2>2, <2>4 DEF Pending
<1> QED
  BY <1>4, <1>5

\* The first info goes on to another state of its machine.
LEMMA PendingOn ==
    ASSUME Fine, NEW rs, NEW rest, Pending(rs, rest), rs # <<>>, NEW m, NEW left, Leaves(m, left)
    PROVE  Pending([rs EXCEPT ![1].url_gen = m],
                   Cat(Named(Chosen(Urls - Len(rs) + 1), left), Ahead(Len(rs) - 1)))
<1>1. PICK S : rs \in Seq(S)
  BY DEF Pending, AreInfos
<1> DEFINE n == Len(rs)
           r == rs[1]
           q == [url_gen |-> m, output |-> r.output, input |-> r.input, remotename |-> r.remotename]
           qs == [rs EXCEPT ![1].url_gen = m]
<1>2. n \in Nat \ {0} /\ DOMAIN rs = 1..n
  BY <1>1
<1>3. /\ n <= Urls
      /\ \A i \in 1..n : IsInfo(rs[i]) /\ rs[i].output = Chosen(Urls - n + i)
      /\ \A i \in 1..n : i # 1 => rs[i].url_gen = UrlGen(Vals("url")[Urls - n + i])
  BY DEF Pending, AreInfos
<1>4. qs = [rs EXCEPT ![1] = q]
  <2>1. r = [url_gen |-> r.url_gen, output |-> r.output, input |-> r.input,
             remotename |-> r.remotename]
    <3>1. 1 \in 1..n
      BY <1>2
    <3>2. IsInfo(r)
      BY <1>3, <3>1
    <3> QED
      BY <3>2 DEF IsInfo
  <2>2. qs = [rs EXCEPT ![1] = [r EXCEPT !.url_gen = m]]
    OBVIOUS
  <2>3. [r EXCEPT !.url_gen = m] = q
    <3> HIDE DEF r
    <3> QED
      BY <2>1
  <2> QED
    BY <2>2, <2>3
<1>5. IsInfo(q) /\ q.url_gen = m /\ q.output = r.output
  BY DEF IsInfo
<1> HIDE DEF q, qs, n
<1>6. /\ qs \in Seq(S \cup {q}) /\ Len(qs) = n
      /\ \A i \in 1..n : qs[i] = IF i = 1 THEN q ELSE rs[i]
  <2>1. rs \in Seq(S \cup {q})
    BY <1>1, SeqMonotonic
  <2>2. 1 \in 1..Len(rs)
    BY <1>2 DEF n
  <2> QED
    BY <1>4, <2>1, <2>2, ExceptSeq DEF n
<1>7. qs # <<>> /\ qs[1] = q
  BY <1>2, <1>6
<1>8. AreInfos(qs)
  BY <1>2, <1>3, <1>5, <1>6 DEF AreInfos
<1>9. \A i \in 1..Len(qs) : i # 1 => qs[i].url_gen = UrlGen(Vals("url")[Urls - Len(qs) + i])
  BY <1>3, <1>6
<1>10. Leaves(qs[1].url_gen, left)
  BY <1>5, <1>7
<1>11. Pending(qs, Cat(Named(Chosen(Urls - Len(qs) + 1), left), Ahead(Len(qs) - 1)))
  BY <1>7, <1>8, <1>9, <1>10 DEF Pending
<1> QED
  BY <1>6, <1>11 DEF qs, n

\* The first info is dropped when its machine has nothing left.
LEMMA PendingDropped ==
    ASSUME Fine, NEW rs, NEW rest, Pending(rs, rest), rs # <<>>, rs[1].url_gen.stack = <<>>
    PROVE  Pending(Tail(rs), rest)
<1>1. PICK S : rs \in Seq(S)
  BY DEF Pending, AreInfos
<1> DEFINE n == Len(rs)
           t == Tail(rs)
<1>2. n \in Nat \ {0}
  BY <1>1
<1>3. /\ n <= Urls
      /\ \A i \in 1..n : IsInfo(rs[i]) /\ rs[i].output = Chosen(Urls - n + i)
      /\ \A i \in 1..n : i # 1 => rs[i].url_gen = UrlGen(Vals("url")[Urls - n + i])
  BY DEF Pending, AreInfos
<1>4. PICK left : /\ Leaves(rs[1].url_gen, left)
                  /\ rest = Cat(Named(Chosen(Urls - n + 1), left), Ahead(n - 1))
  BY DEF Pending
<1>5. t \in Seq(S) /\ Len(t) = n - 1 /\ \A i \in 1..(n - 1) : t[i] = rs[i + 1]
  BY <1>1, HeadTailProperties
<1>6. Urls \in Nat
  BY UrlsDomain DEF Fine
<1> HIDE DEF n, t
<1>7. ASSUME NEW i \in 1..Len(t)
      PROVE  /\ IsInfo(t[i]) /\ t[i].output = Chosen(Urls - Len(t) + i)
             /\ t[i].url_gen = UrlGen(Vals("url")[Urls - Len(t) + i])
  <2>1. /\ i \in 1..(n - 1) /\ i + 1 \in 1..n /\ i + 1 # 1
        /\ Urls - Len(t) + i = Urls - n + (i + 1)
    BY <1>2, <1>5, <1>6
  <2> QED
    BY <1>3, <1>5, <2>1
<1>8. AreInfos(t)
  <2>1. Len(t) <= Urls
    BY <1>2, <1>3, <1>5, <1>6
  <2> QED
    BY <1>5, <1>7, <2>1 DEF AreInfos
<1>9. Pending(t, Ahead(Len(t)))
  BY <1>7, <1>8, PendingFresh
<1>10. rest = Ahead(n - 1)
  <2>1. left = <<>>
    BY <1>4, MachineEnds
  <2>2. Named(Chosen(Urls - n + 1), <<>>) = <<>>
    BY DEF Named
  <2>3. Ahead(n - 1) \in Seq(Item)
    <3>1. n - 1 \in Nat /\ n - 1 <= Urls
      BY <1>2, <1>3, <1>6
    <3> QED
      BY <3>1, ChunksType
  <2> QED
    BY <1>4, <2>1, <2>2, <2>3, CatEmpty
<1> QED
  BY <1>5, <1>9, <1>10 DEF t

\* What was produced, and what is still to be produced.
Got == [n \in DOMAIN produced |-> UrlAndOutput(produced[n])]

Enumerating ==
    /\ pc \in {"parse", "refused", "accepted", "exhausted", "failed"}
    /\ pc = "parse" => produced = <<>>
    /\ pc = "exhausted" => requests = <<>>
    /\ \E S : produced \in Seq(S)
    /\ pc \in {"accepted", "exhausted", "failed"} => ~ Refused
    /\ pc \in {"accepted", "exhausted", "failed"} /\ SanePatterns =>
        /\ Got \in Seq(Item)
        /\ \E rest \in Seq(Item) : Pending(requests, rest) /\ Expected = Cat(Got, rest)

\* A prefix and what follows it.
LEMMA CatPrefix ==
    ASSUME NEW S, NEW s \in Seq(S), NEW t \in Seq(S)
    PROVE  IsPrefix(s, Cat(s, t))
<1>1. /\ Len(Cat(s, t)) = Len(s) + Len(t)
      /\ Len(s) \in Nat /\ Len(t) \in Nat
  <2>1. Len(s) \in Nat /\ Len(t) \in Nat
    OBVIOUS
  <2>2. Len(Cat(s, t)) = Len(s) + Len(t)
    BY CatElements
  <2> QED
    BY <2>1, <2>2
<1>2. SubSeq(Cat(s, t), 1, Len(s)) = SubSeq(s, 1, Len(s))
  <2>1. CASE Len(s) = 0
    <3>1. 0 < 1
      OBVIOUS
    <3> QED
      BY <2>1, <3>1, SubSeqEmpty
  <2>2. CASE Len(s) # 0
    <3>1. 1 \in 1..Len(s) /\ Len(s) \in 1..Len(s)
      BY <1>1, <2>2
    <3> QED
      BY <3>1, SubSeqOfConcat1 DEF Cat
  <2> QED
    BY <2>1, <2>2
<1> HIDE DEF Cat
<1> QED
  BY <1>1, <1>2 DEF IsPrefix

\* The invariant is what was to be shown.
LEMMA EnumeratingEnough ==
    ASSUME args \in Seq(Given), Enumerating
    PROVE  EnumeratesPatterns
<1> SUFFICES ASSUME pc # "parse", pc # "refused", SanePatterns
             PROVE  IsPrefix(Got, Expected) /\ (pc = "exhausted" => Got = Expected)
  BY DEF EnumeratesPatterns, Got
<1>1. PICK rest \in Seq(Item) : Pending(requests, rest) /\ Expected = Cat(Got, rest)
  BY DEF Enumerating
<1>2. Got \in Seq(Item) /\ (pc = "exhausted" => requests = <<>>)
  BY DEF Enumerating
<1>3. IsPrefix(Got, Expected)
  BY <1>1, <1>2, CatPrefix
<1>4. ASSUME requests = <<>> PROVE Got = Expected
  <2>1. rest = <<>>
    BY <1>1, <1>4 DEF Pending
  <2> QED
    BY <1>1, <1>2, <2>1, CatEmpty
<1> QED
  BY <1>2, <1>3, <1>4

\* Nothing that is expected changes while the command line stays.
LEMMA SameExpected ==
    ASSUME args' = args
    PROVE  /\ Refused' = Refused /\ SanePatterns' = SanePatterns
           /\ Expected' = Expected /\ Item' = Item
           /\ \A rest : Pending(requests, rest)' <=> Pending(requests', rest)
<1>1. /\ \A o : Vals(o)' = Vals(o) /\ contains(o)' = contains(o)
      /\ \A i : Opt(i)' = Opt(i) /\ Val(i)' = Val(i)
  BY DEF Vals, Of, Occurrences, Opt, Val, contains
<1>2. SanePatterns' = SanePatterns
  BY <1>1 DEF SanePatterns
<1>3. \A k : Chosen(k)' = Chosen(k) /\ Meant(k)' = Meant(k)
  <2>1. ASSUME NEW k PROVE Chosen(k)' = Chosen(k)
    BY DEF Chosen, Opt, Val
  <2>2. ASSUME NEW k PROVE Meant(k)' = Meant(k)
    BY <1>1 DEF Meant
  <2> QED
    BY <2>1, <2>2
<1>4. Expected' = Expected
  BY <1>1, <1>3 DEF Expected
<1>5. Item' = Item
  <2>1. \A k, t : interpolate(Chosen(k), t)' = interpolate(Chosen(k), t)
    BY <1>3 DEF interpolate
  <2> DEFINE outs == {interpolate(Chosen(k), t) : k \in Nat, t \in Seq(Symbol)}
  <2>2. outs' = outs
    BY <2>1
  <2>3. Item = [url : Seq(Symbol), output : outs] /\ Item' = [url : Seq(Symbol), output : outs']
    BY DEF Item
  <2> HIDE DEF outs
  <2> QED
    BY <2>2, <2>3
<1>6. Urls' = Urls
  BY <1>1 DEF Urls
<1>7. \A n : Ahead(n)' = Ahead(n)
  BY <1>3, <1>6 DEF Ahead, Chunks, Chunk
<1>8. \A v : UrlGen(v)' = UrlGen(v)
  BY <1>1 DEF UrlGen
<1>9. ASSUME NEW rest PROVE Pending(requests, rest)' <=> Pending(requests', rest)
  BY <1>1, <1>3, <1>6, <1>7, <1>8 DEF Pending, AreInfos
<1>10. Refused' = Refused
  <2>1. \A o : Pieces(o)' = Pieces(o)
    <3>1. \A i : How(i)' = How(i)
      BY <1>1 DEF How
    <3>2. \A o : Of(o)' = Of(o)
      BY DEF Of, Occurrences, Opt
    <3> QED
      BY <3>1, <3>2 DEF Pieces
  <2>2. data' = data
    BY <2>1 DEF data
  <2>3. Flags' = Flags
    BY <1>1 DEF Flags
  <2>4. Repeated' = Repeated /\ BadValue' = BadValue /\ Conflicts' = Conflicts
    BY <1>1, <2>3 DEF Repeated, BadValue, LookedAt, Conflicts
  <2>5. InvalidQuery' = InvalidQuery
    BY <1>1, <2>2 DEF InvalidQuery
  <2>6. Bodies' = Bodies
    BY <1>1, <2>2 DEF Bodies
  <2> QED
    BY <1>1, <2>4, <2>5, <2>6 DEF Refused
<1> QED
  BY <1>2, <1>4, <1>5, <1>9, <1>10

\* The request that is returned is the first of what is still to be produced.
LEMMA ReturnKeepsEnumerating ==
    ASSUME args \in Seq(Given), Enumerating, Return
    PROVE  Enumerating'
<1>1. /\ pc = "accepted" /\ pc' = "accepted" /\ args' = args /\ requests # <<>> /\ Returns(Gen)
      /\ Gen = Head(requests).url_gen
  BY DEF Return, Gen
<1> DEFINE x == [url |-> Result(Gen).result,
                 output |-> interpolate(Head(requests).output, Result(Gen).tokens),
                 input |-> Head(requests).input, remotename |-> Head(requests).remotename]
           m == AfterResult(Gen)
<1>2. produced' = Append(produced, x)
  BY DEF Return
<1>3. requests' = [requests EXCEPT ![1].url_gen = AfterResult(@)]
  BY DEF Return
<1>4. PICK P : produced \in Seq(P)
  BY DEF Enumerating
<1>5. /\ Refused' = Refused /\ SanePatterns' = SanePatterns /\ ~ Refused
      /\ Expected' = Expected /\ Item' = Item
      /\ \A rest : Pending(requests, rest)' <=> Pending(requests', rest)
  BY <1>1, SameExpected DEF Enumerating
<1> HIDE DEF x
<1>6. produced' \in Seq(P \cup {x})
  <2>1. produced \in Seq(P \cup {x})
    BY <1>4, SeqMonotonic
  <2> QED
    BY <1>2, <2>1, AppendProperties
<1>7. ASSUME SanePatterns
      PROVE  /\ Got' \in Seq(Item)
             /\ \E rest \in Seq(Item) : Pending(requests', rest) /\ Expected = Cat(Got', rest)
  <2>0. Fine
    BY <1>5, <1>7 DEF Fine
  <2>1. PICK rest \in Seq(Item) : Pending(requests, rest) /\ Expected = Cat(Got, rest)
    BY <1>1, <1>7 DEF Enumerating
  <2>2. Got \in Seq(Item)
    BY <1>1, <1>7 DEF Enumerating
  <2> DEFINE n == Len(requests)
             k == Urls - n + 1
  <2>3. PICK S : requests \in Seq(S)
    BY <2>1 DEF Pending, AreInfos
  <2>4. n \in Nat \ {0} /\ Head(requests) = requests[1] /\ 1 \in 1..n /\ DOMAIN requests = 1..n
    BY <1>1, <2>3
  <2>5. Urls \in Nat /\ n <= Urls /\ requests[1].output = Chosen(k)
    <3>1. Urls \in Nat
      BY UrlsDomain
    <3>2. n <= Urls /\ requests[1].output = Chosen(Urls - n + 1)
      BY <2>1, <2>4 DEF Pending, AreInfos
    <3> QED
      BY <3>1, <3>2
  <2>6. PICK left : /\ Leaves(Gen, left)
                    /\ rest = Cat(Named(Chosen(k), left), Ahead(n - 1))
    BY <1>1, <2>1, <2>4 DEF Pending
  <2>7. PICK others \in Seq(Combo) : left = Cat(<<Result(Gen)>>, others) /\ Leaves(m, others)
    BY <1>1, <2>6, MachineReturns
  <2>8. Result(Gen) \in Combo
    BY <1>1, <2>6, MachineReturns
  <2> HIDE DEF m, n, k
  <2>9. requests' = [requests EXCEPT ![1].url_gen = m]
    BY <1>1, <1>3, <2>4 DEF m
  <2> DEFINE y == NamedItem(Chosen(k), Result(Gen))
             more == Cat(Named(Chosen(k), others), Ahead(n - 1))
  <2>10. Pending(requests', more)
    BY <1>1, <2>0, <2>1, <2>7, <2>9, PendingOn DEF n, k
  <2>11. k \in Nat /\ n - 1 \in Nat /\ n - 1 <= Urls
    BY <2>4, <2>5 DEF k
  <2>12. Named(Chosen(k), others) \in Seq(Item) /\ Ahead(n - 1) \in Seq(Item) /\ y \in Item
    BY <2>0, <2>7, <2>8, <2>11, NamedType, ChunksType
  <2>13. more \in Seq(Item)
    BY <2>12, CatType
  <2>14. UrlAndOutput(x) = y
    BY <2>4, <2>5 DEF UrlAndOutput, x, NamedItem
  <2>15. Got' = Append(Got, y)
    <3>1. /\ DOMAIN produced' = 1..(Len(produced) + 1)
          /\ DOMAIN produced = 1..Len(produced) /\ Len(produced) \in Nat
      BY <1>2, <1>4
    <3>2. \A i \in 1..Len(produced) : produced'[i] = produced[i]
      BY <1>2, <1>4
    <3>3. produced'[Len(produced) + 1] = x
      BY <1>2, <1>4
    <3>4. Got' = [i \in DOMAIN produced' |-> UrlAndOutput(produced'[i])]
      BY DEF Got, UrlAndOutput
    <3>5. DOMAIN Got = 1..Len(produced) /\ Len(Got) = Len(produced)
      BY <2>2, <3>1 DEF Got
    <3>6. \A i \in 1..Len(produced) : Got[i] = UrlAndOutput(produced[i])
      BY <3>1 DEF Got
    <3>7. /\ Append(Got, y) \in Seq(Item) /\ Len(Append(Got, y)) = Len(Got) + 1
          /\ \A i \in 1..Len(Got) : Append(Got, y)[i] = Got[i]
          /\ Append(Got, y)[Len(Got) + 1] = y
      BY <2>2, <2>12, AppendProperties
    <3>8. DOMAIN Append(Got, y) = 1..(Len(produced) + 1)
      BY <3>5, <3>7, LenProperties
    <3>9. ASSUME NEW i \in 1..(Len(produced) + 1)
          PROVE  Append(Got, y)[i] = UrlAndOutput(produced'[i])
      <4>1. CASE i = Len(produced) + 1
        BY <2>14, <3>3, <3>5, <3>7, <4>1
      <4>2. CASE i # Len(produced) + 1
        <5>1. i \in 1..Len(produced)
          BY <3>1, <4>2
        <5> QED
          BY <3>2, <3>5, <3>6, <3>7, <5>1
      <4> QED
        BY <4>1, <4>2
    <3> DEFINE g == Append(Got, y)
    <3> HIDE DEF g
    <3>10. g = [i \in DOMAIN g |-> g[i]]
      <4>1. g \in Seq(Item)
        BY <3>7 DEF g
      <4>2. g \in [1..Len(g) -> Item]
        BY <4>1, LenProperties
      <4> QED
        BY <4>2
    <3>11. g = [i \in 1..(Len(produced) + 1) |-> UrlAndOutput(produced'[i])]
      BY <3>8, <3>9, <3>10 DEF g
    <3> QED
      BY <3>1, <3>4, <3>11 DEF g
  <2>16. Expected = Cat(Got', more)
    <3> DEFINE one == <<y>>
               tail == Named(Chosen(k), others)
               after == Ahead(n - 1)
               got == Got
    <3>1. Named(Chosen(k), left) = Cat(one, tail)
      BY <2>7, <2>8, <2>11, NamedFront
    <3>2. one \in Seq(Item) /\ tail \in Seq(Item) /\ after \in Seq(Item) /\ got \in Seq(Item)
      BY <2>2, <2>12
    <3>3. Append(got, y) = Cat(got, one)
      BY <2>2, <2>12, AppendIsConcat DEF Cat
    <3>4. Expected = Cat(got, Cat(Cat(one, tail), after))
      BY <2>1, <2>6, <3>1
    <3>5. Got' = Cat(got, one)
      BY <2>15, <3>3
    <3> HIDE DEF one, tail, after, y, got
    <3>6. Cat(Cat(one, tail), after) = Cat(one, Cat(tail, after))
      BY <3>2, CatAssociative
    <3>7. Cat(tail, after) \in Seq(Item)
      BY <3>2, CatType
    <3>8. Cat(got, Cat(one, Cat(tail, after))) = Cat(Cat(got, one), Cat(tail, after))
      BY <3>2, <3>7, CatAssociative
    <3> QED
      BY <3>4, <3>5, <3>6, <3>8 DEF tail, after
  <2>17. Got' \in Seq(Item)
    BY <2>2, <2>12, <2>15, AppendProperties
  <2> HIDE DEF more
  <2> QED
    BY <2>10, <2>13, <2>16, <2>17
<1>8. (Got \in Seq(Item))' <=> Got' \in Seq(Item)
  BY <1>5
<1>9. (\E rest \in Seq(Item) : Pending(requests, rest) /\ Expected = Cat(Got, rest))'
        <=> \E rest \in Seq(Item) : Pending(requests', rest) /\ Expected = Cat(Got', rest)
  BY <1>5
<1> QED
  BY <1>1, <1>5, <1>6, <1>7, <1>8, <1>9 DEF Enumerating

\* Going on and going back change nothing of what is still to be produced.
LEMMA SilentKeepsEnumerating ==
    ASSUME args \in Seq(Given), Enumerating, Descend \/ Retreat
    PROVE  Enumerating'
<1>1. /\ pc = "accepted" /\ pc' = "accepted" /\ args' = args /\ requests # <<>>
      /\ produced' = produced /\ Gen = Head(requests).url_gen
  BY DEF Descend, Retreat, Gen
<1>2. /\ Refused' = Refused /\ SanePatterns' = SanePatterns /\ ~ Refused
      /\ Expected' = Expected /\ Item' = Item /\ Got' = Got
      /\ \A rest : Pending(requests, rest)' <=> Pending(requests', rest)
  <2>1. Got' = Got
    BY <1>1 DEF Got, UrlAndOutput
  <2> QED
    BY <1>1, <2>1, SameExpected DEF Enumerating
<1>3. ASSUME SanePatterns, NEW rest, Pending(requests, rest)
      PROVE  Pending(requests', rest)
  <2>0. Fine
    BY <1>2, <1>3 DEF Fine
  <2>1. PICK S : requests \in Seq(S)
    BY <1>3 DEF Pending, AreInfos
  <2>2. Head(requests) = requests[1]
    BY <1>1, <2>1
  <2>3. PICK left : /\ Leaves(Gen, left)
                    /\ rest = Cat(Named(Chosen(Urls - Len(requests) + 1), left),
                                  Ahead(Len(requests) - 1))
    BY <1>1, <1>3, <2>2 DEF Pending
  <2>4. PICK m : Leaves(m, left) /\ requests' = [requests EXCEPT ![1].url_gen = m]
    <3>1. CASE Descend
      <4>1. Descends(Gen) /\ requests' = [requests EXCEPT ![1].url_gen = AfterDescent(Gen)]
        BY <1>1, <2>2, <3>1 DEF Descend
      <4>2. Leaves(AfterDescent(Gen), left)
        BY <2>3, <4>1, MachineDescends
      <4> QED
        BY <4>1, <4>2
    <3>2. CASE Retreat
      <4>1. Retreats(Gen) /\ requests' = [requests EXCEPT ![1].url_gen = Popped(Gen)]
        BY <1>1, <2>2, <3>2 DEF Retreat
      <4>2. Leaves(Popped(Gen), left)
        BY <2>3, <4>1, MachineRetreats
      <4> QED
        BY <4>1, <4>2
    <3> QED
      BY <3>1, <3>2
  <2> QED
    BY <1>1, <1>3, <2>0, <2>3, <2>4, PendingOn
<1> QED
  BY <1>1, <1>2, <1>3 DEF Enumerating

\* A pattern that has nothing left is dropped.
LEMMA NextPatternKeepsEnumerating ==
    ASSUME args \in Seq(Given), Enumerating, NextPattern
    PROVE  Enumerating'
<1>1. /\ pc = "accepted" /\ pc' = "accepted" /\ args' = args /\ requests # <<>>
      /\ produced' = produced /\ Head(requests).url_gen.stack = <<>> /\ requests' = Tail(requests)
  BY DEF NextPattern, Gen
<1>2. /\ Refused' = Refused /\ SanePatterns' = SanePatterns /\ ~ Refused
      /\ Expected' = Expected /\ Item' = Item /\ Got' = Got
      /\ \A rest : Pending(requests, rest)' <=> Pending(requests', rest)
  <2>1. Got' = Got
    BY <1>1 DEF Got, UrlAndOutput
  <2> QED
    BY <1>1, <2>1, SameExpected DEF Enumerating
<1>3. ASSUME SanePatterns, NEW rest, Pending(requests, rest)
      PROVE  Pending(requests', rest)
  <2>0. Fine
    BY <1>2, <1>3 DEF Fine
  <2>1. PICK S : requests \in Seq(S)
    BY <1>3 DEF Pending, AreInfos
  <2>2. Head(requests) = requests[1]
    BY <1>1, <2>1
  <2> QED
    BY <1>1, <1>3, <2>0, <2>2, PendingDropped
<1> QED
  BY <1>1, <1>2, <1>3 DEF Enumerating

\* At first everything is still to be produced.
LEMMA AcceptStartsEnumerating ==
    ASSUME args \in Seq(Given), Enumerating, Accept
    PROVE  Enumerating'
<1>1. /\ pc = "parse" /\ pc' = "accepted" /\ args' = args /\ ~ Refused
      /\ produced' = produced /\ requests' = [k \in DOMAIN Vals("url") |-> request_info(k)]
  BY DEF Accept
<1>2. produced = <<>>
  BY <1>1 DEF Enumerating
<1>3. /\ Refused' = Refused /\ SanePatterns' = SanePatterns
      /\ Expected' = Expected /\ Item' = Item
      /\ \A rest : Pending(requests, rest)' <=> Pending(requests', rest)
  BY <1>1, SameExpected
<1>4. Got' = <<>> /\ Got' \in Seq(Item)
  BY <1>1, <1>2 DEF Got
<1>5. ASSUME SanePatterns
      PROVE  Pending(requests', Expected) /\ Expected \in Seq(Item)
  <2> DEFINE rs == requests'
  <2>0. Fine
    BY <1>1, <1>5 DEF Fine
  <2>1. Urls \in Nat /\ DOMAIN Vals("url") = 1..Urls
    BY UrlsDomain
  <2>2. rs = [k \in 1..Urls |-> request_info(k)]
    BY <1>1, <2>1
  <2> DEFINE S == {request_info(k) : k \in 1..Urls}
  <2> HIDE DEF rs
  <2>3. rs \in Seq(S) /\ Len(rs) = Urls /\ \A i \in 1..Urls : rs[i] = request_info(i)
    BY <2>1, <2>2
  <2>4. \A i \in 1..Urls : Urls - Urls + i = i
    BY <2>1
  <2>5. ASSUME NEW i \in 1..Urls
        PROVE  /\ IsInfo(rs[i]) /\ rs[i].output = Chosen(Urls - Urls + i)
               /\ rs[i].url_gen = UrlGen(Vals("url")[Urls - Urls + i])
    <3>1. OutputFor(i) = Chosen(i)
      BY OutputsChosen
    <3>2. IsInfo(request_info(i)) /\ request_info(i).output = Chosen(i)
          /\ request_info(i).url_gen = UrlGen(Vals("url")[i])
      BY <3>1 DEF IsInfo, request_info
    <3> QED
      BY <2>3, <2>4, <3>2
  <2> HIDE DEF S
  <2>6. AreInfos(rs)
    <3>1. Urls <= Urls
      BY <2>1
    <3> QED
      BY <2>3, <2>5, <3>1 DEF AreInfos
  <2>7. Pending(rs, Ahead(Len(rs)))
    BY <2>0, <2>3, <2>5, <2>6, PendingFresh
  <2>8. Ahead(Urls) \in Seq(Item)
    <3>1. Urls <= Urls
      BY <2>1
    <3> QED
      BY <2>0, <2>1, <3>1, ChunksType
  <2> QED
    BY <2>0, <2>3, <2>7, <2>8, AheadAll DEF rs
<1>6. ASSUME SanePatterns
      PROVE  Expected = Cat(Got', Expected)
  BY <1>4, <1>5, <1>6, CatEmpty
<1>7. (\E S : produced \in Seq(S))'
  BY <1>1, <1>2
<1> QED
  BY <1>1, <1>3, <1>4, <1>5, <1>6, <1>7 DEF Enumerating

\* The generator enumerates the combinations of every pattern, in order and each of them
\* once, and names each output after the tokens of its own URL: for all patterns whose
\* ranges have a step and do not wrap before they end, of any length and number.
THEOREM PatternsEnumerated == Spec => []EnumeratesPatterns
<1>1. Init => Enumerating
  <2> SUFFICES ASSUME Init PROVE Enumerating
    OBVIOUS
  <2>1. pc = "parse" /\ produced = <<>>
    BY DEF Init
  <2>2. produced \in Seq({})
    BY <2>1
  <2> QED
    BY <2>1, <2>2 DEF Enumerating
<1>2. ASSUME args \in Seq(Given), Enumerating, [Next]_vars
      PROVE  Enumerating'
  <2>1. CASE Refuse
    <3>1. pc' = "refused" /\ produced' = produced /\ args' = args
      BY <2>1 DEF Refuse
    <3> QED
      BY <1>2, <3>1 DEF Enumerating
  <2>2. CASE Exhausted
    <3>1. /\ pc = "accepted" /\ pc' = "exhausted" /\ requests = <<>> /\ requests' = requests
          /\ produced' = produced /\ args' = args
      BY <2>2 DEF Exhausted
    <3>2. Got' = Got
      BY <3>1 DEF Got, UrlAndOutput
    <3> QED
      BY <1>2, <3>1, <3>2, SameExpected DEF Enumerating
  <2>3. CASE Throw
    <3>1. /\ pc = "accepted" /\ pc' = "failed" /\ requests' = requests
          /\ produced' = produced /\ args' = args
      BY <2>3 DEF Throw
    <3>2. Got' = Got
      BY <3>1 DEF Got, UrlAndOutput
    <3> QED
      BY <1>2, <3>1, <3>2, SameExpected DEF Enumerating
  <2>4. CASE UNCHANGED vars
    <3>1. /\ pc' = pc /\ requests' = requests /\ produced' = produced /\ args' = args
      BY <2>4 DEF vars
    <3>2. Got' = Got
      BY <3>1 DEF Got, UrlAndOutput
    <3> QED
      BY <1>2, <3>1, <3>2, SameExpected DEF Enumerating
  <2> QED
    BY <1>2, <2>1, <2>2, <2>3, <2>4, AcceptStartsEnumerating, ReturnKeepsEnumerating,
       SilentKeepsEnumerating, NextPatternKeepsEnumerating DEF Next
<1>3. args \in Seq(Given) /\ Enumerating => EnumeratesPatterns
  BY EnumeratingEnough
<1> QED
  BY <1>1, <1>2, <1>3, LineFixed, PTL DEF Spec
================================================================================
