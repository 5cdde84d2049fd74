---------------------------- MODULE ClientsProofs ----------------------------
(***************************************************************************)
(* That the invariants of MCClients hold for any number of calls, threads, *)
(* objects, values, partitions and seconds.  First each class alone, with  *)
(* the invariant its steps preserve, and then the model of them all, whose *)
(* behaviours are those of one class while the others are IDLE.            *)
(***************************************************************************)
EXTENDS MCClients, FiniteSetTheorems, WellFoundedInduction, TLAPS

(* Every set of natural numbers has a least, and so induction.             *)
Less == {ss \in Nat \X Nat : ss[1] < ss[2]}

LEMMA LessWellFounded == IsWellFoundedOn(Less, Nat)
BY NatLessThanWellFounded DEF OpToRel, Less

LEMMA Least ==
    ASSUME NEW T, T \subseteq Nat, T # {}
    PROVE  \E n \in T : \A k \in T : n <= k
<1>1. PICK x \in T : \A y \in T : ~(<<y, x>> \in Less)
  BY LessWellFounded, WFMin, Zenon
<1>2. \A y \in T : ~(y < x)
  <2> SUFFICES ASSUME NEW y \in T, y < x PROVE <<y, x>> \in Less
    BY <1>1
  <2> QED
    BY DEF Less
<1> QED
  BY <1>2

LEMMA SetInduction ==
    ASSUME NEW S, 0 \in S, \A n \in Nat : n \in S => n + 1 \in S
    PROVE  Nat \subseteq S
<1> SUFFICES ASSUME Nat \ S # {} PROVE FALSE
  OBVIOUS
<1>1. PICK n \in Nat \ S : \A k \in Nat \ S : n <= k
  BY Least
<1>2. n # 0 /\ n - 1 \in Nat
  BY <1>1
<1>3. n - 1 \in S
  BY <1>1, <1>2
<1> QED
  BY <1>1, <1>2, <1>3

(* Every module counts with the Cardinality of its own FiniteSets.         *)
LEMMA SameCardinality ==
    /\ \A S : Redis!Cardinality(S) = Cardinality(S)
    /\ \A S : Sock!Cardinality(S) = Cardinality(S)
    /\ \A S : Threading!Cardinality(S) = Cardinality(S)
    /\ \A S : System!Cardinality(S) = Cardinality(S) /\ (System!IsFiniteSet(S) <=> IsFiniteSet(S))
<1>1. \A S : Redis!Cardinality(S) = Cardinality(S)
  BY DEF Redis!Cardinality, Cardinality
<1>2. \A S : Sock!Cardinality(S) = Cardinality(S)
  BY DEF Sock!Cardinality, Cardinality
<1>3. \A S : Threading!Cardinality(S) = Cardinality(S)
  BY DEF Threading!Cardinality, Cardinality
<1>4. \A S : System!Cardinality(S) = Cardinality(S)
  BY DEF System!Cardinality, Cardinality
<1>5. \A S : System!IsFiniteSet(S) <=> IsFiniteSet(S)
  BY DEF System!IsFiniteSet, IsFiniteSet
<1> QED
  BY <1>1, <1>2, <1>3, <1>4, <1>5

-----------------------------------------------------------------------------
(* What is left of a sequence without an element.                          *)
KeptTo(s, x, n, f) ==
    f = [k \in 0..n |-> IF k = 0 THEN <<>> ELSE IF s[k] = x THEN f[k - 1] ELSE Append(f[k - 1], s[k])]

LEMMA KeptValues ==
    ASSUME NEW s, NEW x, NEW n \in Nat, NEW f, KeptTo(s, x, n, f)
    PROVE  f[0] = <<>> /\ \A k \in 1..n : f[k] = IF s[k] = x THEN f[k - 1] ELSE Append(f[k - 1], s[k])
<1>1. PICK h : /\ h = [k \in 0..n |-> IF k = 0 THEN <<>> ELSE IF s[k] = x THEN f[k - 1] ELSE Append(f[k - 1], s[k])]
               /\ h = f
  BY DEF KeptTo
<1>2. \A k \in 0..n : h[k] = IF k = 0 THEN <<>> ELSE IF s[k] = x THEN f[k - 1] ELSE Append(f[k - 1], s[k])
  BY <1>1
<1>3. 0 \in 0..n /\ \A k \in 1..n : k \in 0..n /\ k # 0
  OBVIOUS
<1> QED
  BY <1>1, <1>2, <1>3

LEMMA KeptExists ==
    ASSUME NEW s, NEW x, NEW n \in Nat
    PROVE  \E f : KeptTo(s, x, n, f)
<1> DEFINE A == {l \in Nat : \E f : KeptTo(s, x, l, f)}
<1>1. 0 \in A
  <2>1. KeptTo(s, x, 0, [k \in 0..0 |-> <<>>])
    BY DEF KeptTo
  <2> QED
    BY <2>1
<1>2. ASSUME NEW l \in Nat, l \in A PROVE l + 1 \in A
  <2>1. PICK f : KeptTo(s, x, l, f)
    BY <1>2
  <2>2. f[0] = <<>> /\ \A k \in 1..l : f[k] = IF s[k] = x THEN f[k - 1] ELSE Append(f[k - 1], s[k])
    <3>1. l \in Nat
      OBVIOUS
    <3>2. f[0] = <<>>
      BY <2>1, <3>1, KeptValues
    <3>3. \A k \in 1..l : f[k] = IF s[k] = x THEN f[k - 1] ELSE Append(f[k - 1], s[k])
      BY <2>1, <3>1, KeptValues
    <3> QED
      BY <3>2, <3>3
  <2>5. PICK last : last = IF s[l + 1] = x THEN f[l] ELSE Append(f[l], s[l + 1])
    OBVIOUS
  <2> DEFINE g == [k \in 0..(l + 1) |-> IF k <= l THEN f[k] ELSE last]
  <2>3. ASSUME NEW k \in 0..(l + 1)
        PROVE  g[k] = IF k = 0 THEN <<>> ELSE IF s[k] = x THEN g[k - 1] ELSE Append(g[k - 1], s[k])
    <3>1. CASE k = 0
      BY <2>2, <3>1
    <3>2. CASE k \in 1..l
      <4>1. k - 1 \in 0..(l + 1) /\ k - 1 <= l /\ k <= l /\ k # 0
        BY <3>2
      <4>2. g[k] = f[k] /\ g[k - 1] = f[k - 1]
        BY <4>1
      <4> QED
        BY <2>2, <3>2, <4>1, <4>2
    <3>3. CASE k = l + 1
      <4>1. l \in 0..(l + 1) /\ l <= l /\ ~(l + 1 <= l) /\ k # 0 /\ k - 1 = l
        BY <3>3
      <4>2. g[l] = f[l]
        BY <4>1
      <4>3. g[l + 1] = last
        <5>1. l + 1 \in 0..(l + 1) /\ ~(l + 1 <= l)
          OBVIOUS
        <5> QED
          BY <5>1, Zenon
      <4> QED
        BY <2>5, <3>3, <4>1, <4>2, <4>3
    <3> QED
      BY <3>1, <3>2, <3>3
  <2>4. KeptTo(s, x, l + 1, g)
    <3>1. g = [k \in 0..(l + 1) |-> g[k]]
      OBVIOUS
    <3> HIDE DEF g
    <3> QED
      BY <2>3, <3>1 DEF KeptTo
  <2> QED
    BY <2>4
<1> HIDE DEF A
<1>3. Nat \subseteq A
  BY <1>1, <1>2, SetInduction
<1> QED
  BY <1>3 DEF A

LEMMA WithoutIs ==
    ASSUME NEW s, NEW x, NEW n \in Nat, Len(s) = n
    PROVE  \E f : KeptTo(s, x, n, f) /\ Redis!Without(s, x) = f[n]
<1>1. PICK f : f = (CHOOSE g : KeptTo(s, x, n, g)) /\ KeptTo(s, x, n, f)
  BY KeptExists
<1>2. Redis!Without(s, x) = (CHOOSE g : KeptTo(s, x, n, g))[n]
  BY DEF Redis!Without, KeptTo
<1> QED
  BY <1>1, <1>2

LEMMA WithoutShortens ==
    ASSUME NEW T, NEW s \in Seq(T), NEW x
    PROVE  Redis!Without(s, x) \in Seq(T) /\ Len(Redis!Without(s, x)) <= Len(s)
<1>1. PICK n \in Nat : n = Len(s)
  OBVIOUS
<1>2. PICK f : KeptTo(s, x, n, f) /\ Redis!Without(s, x) = f[n]
  BY <1>1, WithoutIs
<1>3. f[0] = <<>> /\ \A k \in 1..n : f[k] = IF s[k] = x THEN f[k - 1] ELSE Append(f[k - 1], s[k])
  BY <1>2, KeptValues
<1> DEFINE A == {k \in Nat : k <= n => f[k] \in Seq(T) /\ Len(f[k]) <= k}
<1>4. 0 \in A
  <2>1. f[0] \in Seq(T) /\ Len(f[0]) = 0
    BY <1>3
  <2> QED
    BY <2>1
<1>5. ASSUME NEW k \in Nat, k \in A PROVE k + 1 \in A
  <2> SUFFICES ASSUME k + 1 <= n PROVE f[k + 1] \in Seq(T) /\ Len(f[k + 1]) <= k + 1
    OBVIOUS
  <2>1. k <= n /\ k + 1 \in 1..n /\ (k + 1) - 1 = k
    BY <1>1
  <2>2. f[k] \in Seq(T) /\ Len(f[k]) <= k
    <3>1. k \in A => (k <= n => f[k] \in Seq(T) /\ Len(f[k]) <= k)
      OBVIOUS
    <3> HIDE DEF A
    <3> QED
      BY <1>5, <2>1, <3>1
  <2>3. PICK u, y : u = f[k] /\ y = s[k + 1] /\ y \in T
    BY <1>1, <2>1
  <2>4. f[k + 1] = u \/ f[k + 1] = Append(u, y)
    BY <1>3, <2>1, <2>3
  <2>5. u \in Seq(T) /\ Len(u) \in Nat /\ Len(u) <= k
    BY <2>2, <2>3
  <2>6. Append(u, y) \in Seq(T) /\ Len(Append(u, y)) = Len(u) + 1
    BY <2>3, <2>5
  <2> HIDE DEF A
  <2>7. CASE f[k + 1] = u
    <3>1. Len(u) <= k + 1
      BY <2>5
    <3> QED
      BY <2>5, <2>7, <3>1, Zenon
  <2>8. CASE f[k + 1] = Append(u, y)
    <3>1. Len(Append(u, y)) <= k + 1
      BY <2>5, <2>6
    <3> QED
      BY <2>6, <2>8, <3>1, Zenon
  <2> QED
    BY <2>4, <2>7, <2>8
<1> HIDE DEF A
<1>6. n \in A
  BY <1>4, <1>5, SetInduction
<1> QED
  BY <1>1, <1>2, <1>6 DEF A

LEMMA WithoutOne == ASSUME NEW y, NEW x, y # x PROVE Redis!Without(<<y>>, x) # <<>>
<1>1. PICK s : s = <<y>>
  OBVIOUS
<1>2. PICK f : KeptTo(s, x, 1, f) /\ Redis!Without(s, x) = f[1]
  BY <1>1, WithoutIs
<1>3. f[0] = <<>> /\ f[1] = Append(f[0], y)
  <2>1. f[0] = <<>> /\ \A k \in 1..1 : f[k] = IF s[k] = x THEN f[k - 1] ELSE Append(f[k - 1], s[k])
    BY <1>2, KeptValues
  <2>2. 1 \in 1..1 /\ s[1] = y /\ 1 - 1 = 0
    BY <1>1
  <2> QED
    BY <2>1, <2>2
<1> QED
  BY <1>1, <1>2, <1>3

-----------------------------------------------------------------------------
(* The replies of the server and what the methods make of them.            *)
Kinds == {"int", "str", "list"}

LEMMA ResultTyped ==
    ASSUME NEW name \in Redis!Known, NEW r, r.n \in Nat, NEW x \in Redis!Result(name, r)
    PROVE  x.kind \in Kinds /\ x.n \in Int /\ x.n >= -1
<1> USE DEF Kinds, Redis!StatusText, Redis!StringText, Redis!Elements, Redis!IntegerOr, Redis!Num, Redis!Str, Redis!List
<1>1. CASE name \in {"set", "setex", "get", "spop", "srandmember", "hget", "rpop"}
  BY <1>1 DEF Redis!Result, Redis!set, Redis!setex, Redis!get, Redis!spop, Redis!srandmember, Redis!hget,
     Redis!rpop
<1>2. CASE name \in {"smembers", "hgetall", "hmget"}
  BY <1>2 DEF Redis!Result, Redis!smembers, Redis!hgetall, Redis!hmget
<1>3. CASE name \in {"append", "sadd", "srem", "sismember", "scard", "hset", "del", "rpush", "lpush", "lrem", "llen"}
  BY <1>3 DEF Redis!Result, Redis!append, Redis!sadd, Redis!srem, Redis!sismember, Redis!scard, Redis!hset,
     Redis!del, Redis!rpush, Redis!lpush, Redis!lrem, Redis!llen
<1>4. CASE name \in {"hdel", "ping"}
  BY <1>4 DEF Redis!Result, Redis!hdel, Redis!ping, Redis!Number
<1> QED
  BY <1>1, <1>2, <1>3, <1>4 DEF Redis!Known

LEMMA MembersCount == ASSUME NEW S, IsFiniteSet(S) PROVE Len(Redis!Members(S)) \in Nat
<1>1. PICK n \in Nat : n = Cardinality(S)
  BY FS_CardinalityType
<1>2. PICK g : g \in Bijection(1..n, S)
  BY <1>1, FS_CardinalityType DEF ExistsBijection
<1>3. g \in [1..n -> S] /\ Redis!IsInjective(g)
  BY <1>2 DEF Bijection, Injection, IsInjective, Redis!IsInjective
<1>4. Redis!Members(S) = CHOOSE f \in [1..n -> S] : Redis!IsInjective(f)
  BY <1>1, SameCardinality DEF Redis!Members, Redis!SetToSeq
<1>5. Redis!Members(S) \in [1..n -> S]
  BY <1>3, <1>4
<1> QED
  BY <1>5

(* What the key holds.                                                     *)
Typed(d) ==
    \/ d = Redis!None
    \/ d.type = "string" /\ d.val \in Seq(Value)
    \/ d.type = "list" /\ d.val \in Seq(Value) /\ Len(d.val) > 0
    \/ d.type = "set" /\ IsFiniteSet(DOMAIN d.val)
    \/ d.type = "hash"

Fails(x) == x.n = -1 \/ (x.kind = "str" /\ x.str = <<>>)

(* A call whose result is a failure left the key as it was, or removed an
   element "".                                                             *)
Harmless(name, r, same) ==
    \/ same = TRUE
    \/ \A x \in Redis!Result(name, r) : ~Fails(x)
    \/ name \in {"rpop", "spop"} /\ r = Redis!Bulk(<<EMPTY>>)

LEMMA NumbersSucceed ==
    ASSUME NEW name \in {"append", "sadd", "srem", "hset", "hdel", "del", "rpush", "lpush", "lrem"}, NEW n \in Nat
    PROVE  \A x \in Redis!Result(name, Redis!Integer(n)) : ~Fails(x)
<1>0. PICK r : r = Redis!Integer(n)
  OBVIOUS
<1>1. r = Redis!Integer(n) /\ r.type = "integer" /\ r.n = n
  BY <1>0 DEF Redis!Integer
<1>2. Redis!IntegerOr(r, {-1}) = {Redis!Num(n)} /\ Redis!IntegerOr(r, {-1, 0, 1}) = {Redis!Num(n)}
  BY <1>1 DEF Redis!IntegerOr
<1>3. ~Fails(Redis!Num(n))
  BY DEF Fails, Redis!Num
<1>4. Redis!Result(name, r) = {Redis!Num(n)}
  BY <1>2 DEF Redis!Result, Redis!append, Redis!sadd, Redis!srem, Redis!hset, Redis!hdel, Redis!del, Redis!rpush,
     Redis!lpush, Redis!lrem
<1> QED
  BY <1>1, <1>3, <1>4

LEMMA TakenSucceed ==
    ASSUME NEW name \in {"spop", "rpop"}, NEW y, y # EMPTY
    PROVE  \A x \in Redis!Result(name, Redis!Bulk(<<y>>)) : ~Fails(x)
<1>0. PICK r, s : r = Redis!Bulk(<<y>>) /\ s = <<y>>
  OBVIOUS
<1>1. r = Redis!Bulk(<<y>>) /\ r.type = "string" /\ r.strs[1] = s /\ s = <<y>>
  BY <1>0 DEF Redis!Bulk
<1>2. PICK t : t = Redis!Text(s) /\ t # <<>>
  BY <1>1, WithoutOne DEF Redis!Text
<1>3. Redis!StringText(r) = {Redis!Str(t)}
  BY <1>1, <1>2 DEF Redis!StringText
<1>4. ~Fails(Redis!Str(t))
  BY <1>2 DEF Fails, Redis!Str
<1>5. Redis!Result(name, r) = {Redis!Str(t)}
  BY <1>3 DEF Redis!Result, Redis!spop, Redis!rpop
<1> QED
  BY <1>1, <1>4, <1>5

LEMMA StatusSucceeds ==
    ASSUME NEW name \in {"set", "setex"}
    PROVE  \A x \in Redis!Result(name, Redis!Status) : ~Fails(x)
<1>1. Redis!StatusText(Redis!Status) = {Redis!Str(<<"OK">>)}
  BY DEF Redis!StatusText, Redis!Status
<1>2. ~Fails(Redis!Str(<<"OK">>))
  BY DEF Fails, Redis!Str
<1>3. Redis!Result(name, Redis!Status) = {Redis!Str(<<"OK">>)}
  BY <1>1 DEF Redis!Result, Redis!set, Redis!setex
<1> QED
  BY <1>2, <1>3

Right(name, o) == o.reply.n \in Nat /\ Typed(o.db) /\ Harmless(name, o.reply, o.db = db)

LEMMA KeepsRight ==
    ASSUME Typed(db), NEW name, NEW r, r.n \in Nat, NEW o \in Redis!Keep(r)
    PROVE  Right(name, o)
<1>1. o.db = db /\ o.reply = r
  BY DEF Redis!Keep
<1>2. (o.db = db) = TRUE
  BY <1>1
<1> QED
  BY <1>1, <1>2 DEF Right, Harmless

LEMMA StoresRight ==
    ASSUME NEW name, NEW r, r.n \in Nat, NEW d, Typed(d),
           (\A x \in Redis!Result(name, r) : ~Fails(x)) \/ (name \in {"rpop", "spop"} /\ r = Redis!Bulk(<<EMPTY>>)),
           NEW o, o = [db |-> d, reply |-> r]
    PROVE  Right(name, o)
<1>1. o.db = d /\ o.reply = r
  OBVIOUS
<1> QED
  BY <1>1 DEF Right, Harmless

LEMMA IntegersRight ==
    ASSUME NEW name \in {"append", "sadd", "srem", "hset", "hdel", "del", "rpush", "lpush", "lrem"}, NEW n \in Nat,
           NEW d, Typed(d), NEW o \in Redis!Store(d, Redis!Integer(n))
    PROVE  Right(name, o)
<1>1. PICK r : r = Redis!Integer(n) /\ r.n \in Nat
  BY DEF Redis!Integer
<1>2. o = [db |-> d, reply |-> r] /\ \A x \in Redis!Result(name, r) : ~Fails(x)
  BY <1>1, NumbersSucceed DEF Redis!Store
<1> QED
  BY <1>1, <1>2, StoresRight, Zenon

LEMMA NumberIs == \A b : Redis!Number(b) \in Nat
BY DEF Redis!Number

LEMMA PutTyped ==
    /\ \A f : IsFiniteSet(DOMAIN f) => Typed(Redis!Put("set", f))
    /\ \A f : Typed(Redis!Put("hash", f))
    /\ \A s \in Seq(Value) : Typed(Redis!Put("list", s)) /\ Typed(Redis!StringOf(s))
    /\ Typed(Redis!None)
<1>1. \A t, f : Redis!Put(t, f) = Redis!None \/ (Redis!Put(t, f).type = t /\ Redis!Put(t, f).val = f /\ f # <<>>)
  BY DEF Redis!Put
<1>2. \A f : Redis!StringOf(f).type = "string" /\ Redis!StringOf(f).val = f
  BY DEF Redis!StringOf
<1>3. \A s \in Seq(Value) : s # <<>> => Len(s) > 0
  OBVIOUS
<1> QED
  BY <1>1, <1>2, <1>3 DEF Typed

LEMMA FiniteDomains ==
    ASSUME NEW f, IsFiniteSet(DOMAIN f), NEW x, NEW y
    PROVE  IsFiniteSet(DOMAIN Redis!WithIn(f, x, y)) /\ IsFiniteSet(DOMAIN Redis!WithOut(f, x))
<1>1. DOMAIN Redis!WithIn(f, x, y) = DOMAIN f \cup {x} /\ DOMAIN Redis!WithOut(f, x) = DOMAIN f \ {x}
  BY DEF Redis!WithIn, Redis!WithOut, Redis!Restrict
<1> QED
  BY <1>1, FS_AddElement, FS_RemoveElement

LEMMA NothingHeld == Redis!None.val = <<>> /\ IsFiniteSet(DOMAIN Redis!None.val) /\ Redis!None.val \in Seq(Value) /\ Len(Redis!None.val) = 0
<1>1. Redis!None.val = <<>> /\ DOMAIN <<>> = {}
  BY DEF Redis!None
<1>2. IsFiniteSet(DOMAIN Redis!None.val)
  BY <1>1, FS_EmptySet
<1> QED
  BY <1>1, <1>2

(* What the key holds for a method that is not refused.                    *)
LEMMA HeldIs ==
    ASSUME Typed(db), NEW name \in Redis!Known, ~(Redis!Kind(name) # "any" /\ db.type \notin {"none", Redis!Kind(name)})
    PROVE  /\ Redis!Kind(name) \in {"string", "list"} => db.val \in Seq(Value)
           /\ Redis!Kind(name) = "list" /\ db # Redis!None => Len(db.val) > 0
           /\ Redis!Kind(name) = "set" => IsFiniteSet(DOMAIN db.val)
<1>1. Redis!None.type = "none" /\ Redis!Kind(name) # "none"
  BY DEF Redis!None, Redis!Kind
<1>2. CASE db = Redis!None
  BY <1>2, NothingHeld
<1>3. CASE db # Redis!None
  <2>1. db.type \in {"string", "list", "set", "hash"} /\ (Redis!Kind(name) # "any" => db.type = Redis!Kind(name))
    BY <1>3 DEF Typed
  <2> QED
    BY <1>3, <2>1 DEF Typed
<1> QED
  BY <1>2, <1>3

Taken == {"sadd", "srem", "sismember", "scard", "spop", "srandmember", "smembers"}
Listed == {"rpush", "lpush", "lrem", "rpop", "llen"}
Hashed == {"hset", "hdel", "hget", "hgetall", "hmget"}

LEMMA RepliesAreNumbered ==
    /\ Redis!Status.n \in Nat /\ Redis!Nil.n \in Nat /\ Redis!WrongType.n \in Nat
    /\ \A s : Redis!Bulk(s).n \in Nat
    /\ \A n \in Nat : Redis!Integer(n).n \in Nat
    /\ \A s : Len(s) \in Nat => Redis!Array(s).n \in Nat
BY DEF Redis!Status, Redis!Nil, Redis!WrongType, Redis!Bulk, Redis!Integer, Redis!Array

LEMMA StringsRight ==
    ASSUME Typed(db), EMPTY \in Value, NEW name \in {"ping", "set", "setex", "del", "get", "append"}, NEW a \in Value,
           NEW o \in Redis!Perform(name, a), ~(Redis!Kind(name) # "any" /\ db.type \notin {"none", Redis!Kind(name)})
    PROVE  Right(name, o)
<1>0. name \in Redis!Known
  BY DEF Redis!Known
<1>1. CASE name = "ping"
  <2>1. o \in Redis!Keep(Redis!Status)
    BY <1>1 DEF Redis!Perform, Redis!Kind
  <2> QED
    BY <2>1, KeepsRight, RepliesAreNumbered
<1>2. CASE name \in {"set", "setex"}
  <2>1. o \in Redis!Store(Redis!StringOf(<<a>>), Redis!Status)
    BY <1>2 DEF Redis!Perform, Redis!Kind
  <2>2. PICK d, r : d = Redis!StringOf(<<a>>) /\ r = Redis!Status
    OBVIOUS
  <2>3. o = [db |-> d, reply |-> r]
    BY <2>1, <2>2 DEF Redis!Store
  <2>4. Typed(d) /\ r.n \in Nat /\ \A x \in Redis!Result(name, r) : ~Fails(x)
    <3>1. <<a>> \in Seq(Value)
      OBVIOUS
    <3> QED
      BY <1>2, <2>2, <3>1, PutTyped, RepliesAreNumbered, StatusSucceeds
  <2> QED
    BY <2>3, <2>4, StoresRight, Zenon
<1>3. CASE name = "del"
  <2>1. o \in Redis!Store(Redis!None, Redis!Integer(Redis!Number(db # Redis!None)))
    BY <1>3 DEF Redis!Perform, Redis!Kind
  <2>2. PICK n \in Nat : n = Redis!Number(db # Redis!None)
    BY NumberIs
  <2> QED
    BY <1>3, <2>1, <2>2, IntegersRight, PutTyped
<1>4. CASE name = "get"
  <2>1. PICK s : s = db.val
    OBVIOUS
  <2>2. o \in Redis!Keep(Redis!Nil) \/ o \in Redis!Keep(Redis!Bulk(s))
    <3>1. o \in Redis!Keep(IF db = Redis!None THEN Redis!Nil ELSE Redis!Bulk(s))
      BY <1>4, <2>1 DEF Redis!Perform, Redis!Kind
    <3> QED
      BY <3>1
  <2> QED
    BY <2>2, KeepsRight, RepliesAreNumbered
<1>5. CASE name = "append"
  <2>1. PICK v, s : v = db.val /\ s = IF a = EMPTY THEN v ELSE Redis!Without(v, EMPTY) \o <<a>>
    OBVIOUS
  <2>2. o \in Redis!Store(Redis!StringOf(s), Redis!Integer(Len(s)))
    BY <1>5, <2>1 DEF Redis!Perform, Redis!Kind
  <2>3. v \in Seq(Value)
    BY <1>0, <1>5, <2>1, HeldIs DEF Redis!Kind
  <2>4. Redis!Without(v, EMPTY) \in Seq(Value)
    BY <2>3, WithoutShortens
  <2>5. s \in Seq(Value)
    BY <2>1, <2>3, <2>4
  <2>6. PICK n \in Nat : n = Len(s)
    BY <2>5
  <2>7. PICK d : d = Redis!StringOf(s)
    OBVIOUS
  <2>8. Typed(d) /\ o \in Redis!Store(d, Redis!Integer(n))
    BY <2>2, <2>5, <2>6, <2>7, PutTyped
  <2> QED
    BY <1>5, <2>6, <2>8, IntegersRight
<1> QED
  BY <1>1, <1>2, <1>3, <1>4, <1>5

LEMMA SetsRight ==
    ASSUME Typed(db), NEW name \in Taken, NEW a \in Value,
           NEW o \in Redis!Perform(name, a), ~(Redis!Kind(name) # "any" /\ db.type \notin {"none", Redis!Kind(name)})
    PROVE  Right(name, o)
<1>0. name \in Redis!Known /\ Redis!Kind(name) = "set"
  BY DEF Redis!Known, Taken, Redis!Kind
<1>00. PICK v : v = db.val
  OBVIOUS
<1>01. IsFiniteSet(DOMAIN v)
  BY <1>0, <1>00, HeldIs
<1>1. CASE name = "sadd"
  <2>1. PICK d, n : d = Redis!Put("set", Redis!WithIn(v, a, TRUE)) /\ n = Redis!Number(a \notin DOMAIN v)
    OBVIOUS
  <2>2. o \in Redis!Store(d, Redis!Integer(n))
    BY <1>00, <1>1, <2>1 DEF Redis!Perform, Redis!Kind
  <2>3. Typed(d) /\ n \in Nat
    BY <1>01, <2>1, FiniteDomains, PutTyped, NumberIs
  <2> QED
    BY <1>1, <2>2, <2>3, IntegersRight
<1>2. CASE name = "srem"
  <2>1. PICK d, n : d = Redis!Put("set", Redis!WithOut(v, a)) /\ n = Redis!Number(a \in DOMAIN v)
    OBVIOUS
  <2>2. o \in Redis!Store(d, Redis!Integer(n))
    BY <1>00, <1>2, <2>1 DEF Redis!Perform, Redis!Kind
  <2>3. Typed(d) /\ n \in Nat
    BY <1>01, <2>1, FiniteDomains, PutTyped, NumberIs
  <2> QED
    BY <1>2, <2>2, <2>3, IntegersRight
<1>3. CASE name = "sismember"
  <2>1. PICK n \in Nat : n = Redis!Number(a \in DOMAIN v)
    BY NumberIs
  <2>2. o \in Redis!Keep(Redis!Integer(n))
    BY <1>00, <1>3, <2>1 DEF Redis!Perform, Redis!Kind
  <2> QED
    BY <2>2, KeepsRight, RepliesAreNumbered
<1>4. CASE name = "scard"
  <2>1. PICK n \in Nat : n = Cardinality(DOMAIN v)
    BY <1>01, FS_CardinalityType
  <2>2. o \in Redis!Keep(Redis!Integer(n))
    BY <1>00, <1>4, <2>1, SameCardinality DEF Redis!Perform, Redis!Kind
  <2> QED
    BY <2>2, KeepsRight, RepliesAreNumbered
<1>5. CASE name = "spop"
  <2>1. \/ o \in Redis!Keep(Redis!Nil)
        \/ \E x \in DOMAIN v : o = [db |-> Redis!Put("set", Redis!WithOut(v, x)), reply |-> Redis!Bulk(<<x>>)]
    <3>1. o \in IF db = Redis!None THEN Redis!Keep(Redis!Nil)
                ELSE {[db |-> Redis!Put("set", Redis!WithOut(v, x)), reply |-> Redis!Bulk(<<x>>)] : x \in DOMAIN v}
      BY <1>00, <1>5 DEF Redis!Perform, Redis!Kind
    <3> QED
      BY <3>1
  <2>2. ASSUME NEW x, o = [db |-> Redis!Put("set", Redis!WithOut(v, x)), reply |-> Redis!Bulk(<<x>>)] PROVE Right(name, o)
    <3>1. PICK d, r : d = Redis!Put("set", Redis!WithOut(v, x)) /\ r = Redis!Bulk(<<x>>)
      OBVIOUS
    <3>2. o = [db |-> d, reply |-> r]
      BY <2>2, <3>1
    <3>3. Typed(d) /\ r.n \in Nat
      BY <1>01, <3>1, FiniteDomains, PutTyped, RepliesAreNumbered
    <3>4. (\A y \in Redis!Result(name, r) : ~Fails(y)) \/ (name \in {"rpop", "spop"} /\ r = Redis!Bulk(<<EMPTY>>))
      <4>1. x # EMPTY => \A y \in Redis!Result(name, r) : ~Fails(y)
        BY <1>5, <3>1, TakenSucceed
      <4> QED
        BY <1>5, <3>1, <4>1
    <3> QED
      BY <3>2, <3>3, <3>4, StoresRight, Zenon
  <2> QED
    BY <2>1, <2>2, KeepsRight, RepliesAreNumbered
<1>6. CASE name = "srandmember"
  <2>1. o \in Redis!Keep(Redis!Nil) \/ \E x \in DOMAIN v : o \in Redis!Keep(Redis!Bulk(<<x>>))
    <3>1. o \in IF db = Redis!None THEN Redis!Keep(Redis!Nil) ELSE {[db |-> db, reply |-> Redis!Bulk(<<x>>)] : x \in DOMAIN v}
      BY <1>00, <1>6 DEF Redis!Perform, Redis!Kind
    <3> QED
      BY <3>1 DEF Redis!Keep
  <2> QED
    BY <2>1, KeepsRight, RepliesAreNumbered
<1>7. CASE name = "smembers"
  <2>1. PICK s : s = Redis!Members(DOMAIN v)
    OBVIOUS
  <2>2. o \in Redis!Keep(Redis!Array(s))
    BY <1>00, <1>7, <2>1 DEF Redis!Perform, Redis!Kind
  <2>3. Len(s) \in Nat
    BY <1>01, <2>1, MembersCount
  <2> QED
    BY <2>2, <2>3, KeepsRight, RepliesAreNumbered
<1> QED
  BY <1>1, <1>2, <1>3, <1>4, <1>5, <1>6, <1>7 DEF Taken

LEMMA ListsRight ==
    ASSUME Typed(db), NEW name \in Listed, NEW a \in Value,
           NEW o \in Redis!Perform(name, a), ~(Redis!Kind(name) # "any" /\ db.type \notin {"none", Redis!Kind(name)})
    PROVE  Right(name, o)
<1>0. name \in Redis!Known /\ Redis!Kind(name) = "list"
  BY DEF Redis!Known, Listed, Redis!Kind
<1>00. PICK v : v = db.val
  OBVIOUS
<1>01. v \in Seq(Value) /\ Len(v) \in Nat /\ (db # Redis!None => Len(v) > 0)
  BY <1>0, <1>00, HeldIs
<1>1. CASE name = "rpush"
  <2>1. PICK s, n : s = v \o <<a>> /\ n = Len(v) + 1
    OBVIOUS
  <2>2. PICK d : d = Redis!Put("list", s)
    OBVIOUS
  <2>3. o \in Redis!Store(d, Redis!Integer(n))
    BY <1>00, <1>1, <2>1, <2>2 DEF Redis!Perform, Redis!Kind
  <2>4. s \in Seq(Value) /\ n \in Nat
    BY <1>01, <2>1
  <2>5. Typed(d)
    BY <2>2, <2>4, PutTyped
  <2> QED
    BY <1>1, <2>3, <2>4, <2>5, IntegersRight
<1>2. CASE name = "lpush"
  <2>1. PICK s, n : s = <<a>> \o v /\ n = Len(v) + 1
    OBVIOUS
  <2>2. PICK d : d = Redis!Put("list", s)
    OBVIOUS
  <2>3. o \in Redis!Store(d, Redis!Integer(n))
    BY <1>00, <1>2, <2>1, <2>2 DEF Redis!Perform, Redis!Kind
  <2>4. s \in Seq(Value) /\ n \in Nat
    BY <1>01, <2>1
  <2>5. Typed(d)
    BY <2>2, <2>4, PutTyped
  <2> QED
    BY <1>2, <2>3, <2>4, <2>5, IntegersRight
<1>3. CASE name = "lrem"
  <2>1. PICK s, n : s = Redis!Without(v, a) /\ n = Len(v) - Len(s)
    OBVIOUS
  <2>2. PICK d : d = Redis!Put("list", s)
    OBVIOUS
  <2>3. o \in Redis!Store(d, Redis!Integer(n))
    BY <1>00, <1>3, <2>1, <2>2 DEF Redis!Perform, Redis!Kind
  <2>4. s \in Seq(Value) /\ Len(s) <= Len(v)
    BY <1>01, <2>1, WithoutShortens
  <2>5. Typed(d)
    BY <2>2, <2>4, PutTyped
  <2>6. n \in Nat
    BY <1>01, <2>1, <2>4
  <2> QED
    BY <1>3, <2>3, <2>5, <2>6, IntegersRight
<1>4. CASE name = "rpop"
  <2>1. PICK s, x : s = Redis!Front(v) /\ x = Redis!Last(v)
    OBVIOUS
  <2>2. \/ o \in Redis!Keep(Redis!Nil)
        \/ db # Redis!None /\ o \in Redis!Store(Redis!Put("list", s), Redis!Bulk(<<x>>))
    <3>1. o \in IF db = Redis!None THEN Redis!Keep(Redis!Nil) ELSE Redis!Store(Redis!Put("list", s), Redis!Bulk(<<x>>))
      BY <1>00, <1>4, <2>1 DEF Redis!Perform, Redis!Kind
    <3> QED
      BY <3>1
  <2>3. CASE db # Redis!None /\ o \in Redis!Store(Redis!Put("list", s), Redis!Bulk(<<x>>))
    <3>1. PICK d, r : d = Redis!Put("list", s) /\ r = Redis!Bulk(<<x>>)
      OBVIOUS
    <3>2. o = [db |-> d, reply |-> r]
      BY <2>3, <3>1 DEF Redis!Store
    <3>3. s \in Seq(Value)
      <4>1. PICK n \in Nat : n = Len(v) - 1 /\ s = SubSeq(v, 1, n)
        <5>1. Len(v) > 0 /\ Len(v) \in Nat
          BY <1>01, <2>3, Zenon
        <5>2. s = SubSeq(v, 1, Len(v) - 1)
          BY <2>1, Zenon DEF Redis!Front
        <5> QED
          BY <5>1, <5>2
      <4> QED
        BY <1>01, <4>1
    <3>4. Typed(d) /\ r.n \in Nat
      BY <3>1, <3>3, PutTyped, RepliesAreNumbered
    <3>5. (\A y \in Redis!Result(name, r) : ~Fails(y)) \/ (name \in {"rpop", "spop"} /\ r = Redis!Bulk(<<EMPTY>>))
      <4>1. x # EMPTY => \A y \in Redis!Result(name, r) : ~Fails(y)
        BY <1>4, <3>1, TakenSucceed
      <4> QED
        BY <1>4, <3>1, <4>1
    <3> QED
      BY <3>2, <3>4, <3>5, StoresRight, Zenon
  <2> QED
    BY <2>2, <2>3, KeepsRight, RepliesAreNumbered
<1>5. CASE name = "llen"
  <2>1. PICK n \in Nat : n = Len(v)
    BY <1>01
  <2>2. o \in Redis!Keep(Redis!Integer(n))
    BY <1>00, <1>5, <2>1 DEF Redis!Perform, Redis!Kind
  <2> QED
    BY <2>2, KeepsRight, RepliesAreNumbered
<1> QED
  BY <1>1, <1>2, <1>3, <1>4, <1>5 DEF Listed

LEMMA HashesRight ==
    ASSUME Typed(db), NEW name \in Hashed, NEW a \in Value,
           NEW o \in Redis!Perform(name, a), ~(Redis!Kind(name) # "any" /\ db.type \notin {"none", Redis!Kind(name)})
    PROVE  Right(name, o)
<1>00. PICK v : v = db.val
  OBVIOUS
<1>1. CASE name = "hset"
  <2>1. PICK d, n : d = Redis!Put("hash", Redis!WithIn(v, "f", a)) /\ n = Redis!Number("f" \notin DOMAIN v)
    OBVIOUS
  <2>2. o \in Redis!Store(d, Redis!Integer(n))
    BY <1>00, <1>1, <2>1 DEF Redis!Perform, Redis!Kind
  <2>3. Typed(d) /\ n \in Nat
    BY <2>1, PutTyped, NumberIs
  <2> QED
    BY <1>1, <2>2, <2>3, IntegersRight
<1>2. CASE name = "hdel"
  <2>1. PICK d, n : d = Redis!Put("hash", Redis!WithOut(v, "f")) /\ n = Redis!Number("f" \in DOMAIN v)
    OBVIOUS
  <2>2. o \in Redis!Store(d, Redis!Integer(n))
    BY <1>00, <1>2, <2>1 DEF Redis!Perform, Redis!Kind
  <2>3. Typed(d) /\ n \in Nat
    BY <2>1, PutTyped, NumberIs
  <2> QED
    BY <1>2, <2>2, <2>3, IntegersRight
<1>3. CASE name = "hget"
  <2>1. PICK s : s = <<v["f"]>>
    OBVIOUS
  <2>2. o \in Redis!Keep(Redis!Nil) \/ o \in Redis!Keep(Redis!Bulk(s))
    <3>1. o \in Redis!Keep(IF db = Redis!None THEN Redis!Nil ELSE Redis!Bulk(s))
      BY <1>00, <1>3, <2>1 DEF Redis!Perform, Redis!Kind
    <3> QED
      BY <3>1
  <2> QED
    BY <2>2, KeepsRight, RepliesAreNumbered
<1>4. CASE name = "hgetall"
  <2>1. PICK s : s = IF db = Redis!None THEN <<>> ELSE <<"f", v["f"]>>
    OBVIOUS
  <2>2. o \in Redis!Keep(Redis!Array(s))
    BY <1>00, <1>4, <2>1 DEF Redis!Perform, Redis!Kind
  <2>3. Len(s) \in Nat
    BY <2>1
  <2> QED
    BY <2>2, <2>3, KeepsRight, RepliesAreNumbered
<1>5. CASE name = "hmget"
  <2>1. PICK s : s = IF db = Redis!None THEN <<NULL>> ELSE <<v["f"]>>
    OBVIOUS
  <2>2. o \in Redis!Keep(Redis!Array(s))
    BY <1>00, <1>5, <2>1 DEF Redis!Perform, Redis!Kind
  <2>3. Len(s) \in Nat
    BY <2>1
  <2> QED
    BY <2>2, <2>3, KeepsRight, RepliesAreNumbered
<1> QED
  BY <1>1, <1>2, <1>3, <1>4, <1>5 DEF Hashed

(* Whatever the server does with a command.                                *)
LEMMA PerformRight ==
    ASSUME Typed(db), EMPTY \in Value, NEW name \in Redis!Known, NEW a \in Value, NEW o \in Redis!Perform(name, a)
    PROVE  Right(name, o)
<1>1. CASE Redis!Kind(name) # "any" /\ db.type \notin {"none", Redis!Kind(name)}
  <2>1. o \in Redis!Keep(Redis!WrongType)
    BY <1>1 DEF Redis!Perform
  <2> QED
    BY <2>1, KeepsRight, RepliesAreNumbered
<1>2. CASE ~(Redis!Kind(name) # "any" /\ db.type \notin {"none", Redis!Kind(name)})
  <2>1. name \in {"ping", "set", "setex", "del", "get", "append"} \/ name \in Taken \/ name \in Listed \/ name \in Hashed
    BY DEF Redis!Known, Taken, Listed, Hashed
  <2> QED
    BY <1>2, <2>1, StringsRight, SetsRight, ListsRight, HashesRight
<1> QED
  BY <1>1, <1>2

(* ContextIsClean for every bound.  The command of the call in progress is
   on the wire or its reply is waiting; there is nothing else in a context
   that can be used, and nothing in one that does not exist yet.           *)
InFlight(c) ==
    \/ wire[c] = <<call>> /\ replies[c] = <<>>
    \/ wire[c] = <<>> /\ \E r : replies[c] = <<[id |-> call.id, reply |-> r]>>

CleanInv ==
    /\ contexts \in 0..MaxContexts /\ m_pContext \in (1..contexts) \cup {NULL}
    /\ wire = [c \in Redis!Context |-> wire[c]] /\ replies = [c \in Redis!Context |-> replies[c]]
    /\ \A c \in Redis!Context : c > contexts => wire[c] = <<>> /\ replies[c] = <<>>
    /\ pc = "wait" => Redis!Usable /\ InFlight(m_pContext)
    /\ Redis!Usable /\ pc /= "wait" => wire[m_pContext] = <<>> /\ replies[m_pContext] = <<>>

(* Sequences of one element.                                               *)
LEMMA OneElement == \A x : Tail(<<x>>) = <<>> /\ Head(<<x>>) = x /\ Append(<<>>, x) = <<x>>
OBVIOUS

(* Every step preserves CleanInv: Timeout and a broken connection set err,
   so that nobody uses the context its late reply is in.                   *)
LEMMA CleanStep ==
    ASSUME Redis!Bounds, CleanInv, [Redis!Next]_Redis!vars
    PROVE  CleanInv'
<1> USE DEF CleanInv, Redis!Usable, InFlight
<1>1. MaxContexts \in Nat /\ contexts \in Nat /\ contexts <= MaxContexts /\ (Redis!Usable => m_pContext \in Redis!Context)
  BY DEF Redis!Bounds, Redis!Context
<1>2. CASE Redis!GetRedisConnect
  <2>1. contexts + 1 \in Redis!Context /\ UNCHANGED <<err, pc, calls, call, wire, replies>>
    BY <1>1, <1>2 DEF Redis!GetRedisConnect, Redis!Context, Redis!serverVars
  <2> QED
    BY <1>1, <1>2, <2>1 DEF Redis!GetRedisConnect, Redis!Context
<1>3. ASSUME NEW name \in Method, NEW a \in Value, Redis!Send(name, a) PROVE CleanInv'
  <2>1. pc = "idle" /\ UNCHANGED <<m_pContext, err, contexts, replies>>
    BY <1>3 DEF Redis!Send
  <2>2. CASE Redis!Usable
    <3>1. pc' = "wait" /\ wire' = [wire EXCEPT ![m_pContext] = Append(@, call')]
      BY <1>3, <2>2 DEF Redis!Send
    <3>2. wire'[m_pContext] = <<call'>> /\ \A c \in Redis!Context \ {m_pContext} : wire'[c] = wire[c]
      BY <1>1, <2>1, <2>2, <3>1
    <3>3. m_pContext <= contexts
      BY <2>2
    <3> QED
      BY <1>1, <2>1, <2>2, <3>1, <3>2, <3>3
  <2>3. CASE ~Redis!Usable
    BY <1>3, <2>1, <2>3 DEF Redis!Send
  <2> QED
    BY <2>2, <2>3
<1>4. CASE Redis!Receive
  <2>1. /\ Redis!Usable /\ pc' = "idle" /\ UNCHANGED <<m_pContext, err, contexts, call, wire>>
        /\ replies' = [replies EXCEPT ![m_pContext] = Tail(@)] /\ replies[m_pContext] /= <<>>
    BY <1>4 DEF Redis!Receive
  <2>2. wire[m_pContext] = <<>> /\ \E r : replies[m_pContext] = <<[id |-> call.id, reply |-> r]>>
    BY <1>4, <2>1 DEF Redis!Receive
  <2>3. replies'[m_pContext] = <<>> /\ \A c \in Redis!Context \ {m_pContext} : replies'[c] = replies[c]
    BY <1>1, <2>1, <2>2, OneElement
  <2> QED
    BY <1>1, <2>1, <2>2, <2>3
<1>5. CASE Redis!Timeout
  BY <1>5 DEF Redis!Timeout, Redis!serverVars
<1>6. CASE Redis!Destroy
  BY <1>6 DEF Redis!Destroy, Redis!serverVars
<1>7. ASSUME NEW c \in Redis!Context, Redis!Serve(c) PROVE CleanInv'
  <2>1. PICK x : /\ wire[c] /= <<>> /\ wire' = [wire EXCEPT ![c] = Tail(@)]
                 /\ replies' = [replies EXCEPT ![c] = Append(@, [id |-> Head(wire[c]).id, reply |-> x])]
                 /\ UNCHANGED Redis!clientVars
    BY <1>7 DEF Redis!Serve
  <2>2. \A e \in Redis!Context \ {c} : wire'[e] = wire[e] /\ replies'[e] = replies[e]
    BY <2>1
  <2>3. UNCHANGED <<m_pContext, err, contexts, pc, call>> /\ c <= contexts
    BY <1>1, <2>1 DEF Redis!clientVars, Redis!Context
  <2>4. CASE Redis!Usable /\ m_pContext = c
    <3>1. pc = "wait" /\ wire[c] = <<call>> /\ replies[c] = <<>>
      BY <2>1, <2>4
    <3>2. wire'[c] = <<>> /\ replies'[c] = <<[id |-> call.id, reply |-> x]>>
      BY <2>1, <3>1, OneElement
    <3> QED
      BY <1>1, <2>1, <2>2, <2>3, <2>4, <3>1, <3>2
  <2>5. CASE ~(Redis!Usable /\ m_pContext = c)
    BY <1>1, <2>1, <2>2, <2>3, <2>5
  <2> QED
    BY <2>4, <2>5
<1>8. CASE UNCHANGED Redis!vars
  BY <1>8 DEF Redis!vars, Redis!clientVars, Redis!serverVars
<1> QED
  BY <1>2, <1>3, <1>4, <1>5, <1>6, <1>7, <1>8 DEF Redis!Next

-----------------------------------------------------------------------------
(* What a call is given: a call has an id of its own, its command is carried
   out once, and one made in a context that can still be used has the reply
   to its own command.                                                     *)
OnWire(c, id) == \E k \in 1..Len(wire[c]) : wire[c][k].id = id

Succeeded ==
    /\ call.id \in DOMAIN effect /\ ret \in Redis!Result(call.method, effect[call.id].reply)
    /\ \A c \in Redis!Context : ~OnWire(c, call.id)

Unanswered ==
    /\ ~(Redis!Usable /\ call.on = m_pContext)
    /\ call.method \notin {"hdel", "ping"} => Redis!Failed

DoneInv ==
    /\ calls \in 0..RedisCalls /\ call.id = calls
    /\ wire \in [Redis!Context -> Seq(Redis!Command)]
    /\ calls > 0 => call.method \in Method
    /\ call.on \in (1..contexts) \cup {NULL}
    /\ \A c \in Redis!Context : \A k \in 1..Len(wire[c]) : wire[c][k].id <= calls
    /\ pc = "wait" =>
          /\ \A c \in Redis!Context \ {m_pContext} : ~OnWire(c, call.id)
          /\ wire[m_pContext] = <<>> => /\ call.id \in DOMAIN effect
                                       /\ replies[m_pContext] = <<[id |-> call.id, reply |-> effect[call.id].reply]>>
    /\ pc = "idle" /\ calls > 0 => Succeeded \/ Unanswered

(* What each method makes of no reply is what it returns for a failure
   (the m_pReply == NULL branches).                                         *)
LEMMA NoReplyFails ==
    ASSUME NEW name \in Redis!Known \ {"hdel", "ping"}, NEW x \in Redis!Result(name, Redis!NoReply)
    PROVE  Fails(x)
<1> USE DEF Fails, Redis!NoReply, Redis!StatusText, Redis!StringText, Redis!Elements, Redis!IntegerOr, Redis!Num, Redis!Str, Redis!List
<1>1. CASE name \in {"set", "setex", "get", "spop", "srandmember", "hget", "rpop"}
  BY <1>1 DEF Redis!Result, Redis!set, Redis!setex, Redis!get, Redis!spop, Redis!srandmember, Redis!hget,
     Redis!rpop
<1>2. CASE name \in {"smembers", "hgetall", "hmget"}
  BY <1>2 DEF Redis!Result, Redis!smembers, Redis!hgetall, Redis!hmget
<1>3. CASE name \in {"append", "sadd", "srem", "sismember", "scard", "hset", "del", "rpush", "lpush", "lrem", "llen"}
  BY <1>3 DEF Redis!Result, Redis!append, Redis!sadd, Redis!srem, Redis!sismember, Redis!scard, Redis!hset,
     Redis!del, Redis!rpush, Redis!lpush, Redis!lrem, Redis!llen
<1> QED
  BY <1>1, <1>2, <1>3 DEF Redis!Known

(* Every step preserves DoneInv: the server carries a command out before it
   replies, and no command is left on the wire of a call that has its reply. *)
LEMMA DoneStep ==
    ASSUME Redis!Bounds, Redis!Methods, CleanInv, DoneInv, [Redis!Next]_Redis!vars
    PROVE  DoneInv'
<1>1. MaxContexts \in Nat /\ RedisCalls \in Nat /\ calls \in Nat /\ (Redis!Usable => m_pContext \in Redis!Context)
  BY DEF Redis!Bounds, Redis!Context, CleanInv, DoneInv, Redis!Usable
<1>0. /\ wire \in [Redis!Context -> Seq(Redis!Command)] /\ \A x \in Redis!Command : x.id \in Nat
      /\ \A c \in Redis!Context : \A k \in 1..Len(wire[c]) : wire[c][k].id <= calls /\ wire[c][k].id \in Nat
  <2>1. wire \in [Redis!Context -> Seq(Redis!Command)] /\ \A c \in Redis!Context : \A k \in 1..Len(wire[c]) : wire[c][k].id <= calls
    BY DEF DoneInv
  <2>2. \A x \in Redis!Command : x.id \in Nat
    BY DEF Redis!Command
  <2>3. \A c \in Redis!Context : \A k \in 1..Len(wire[c]) : wire[c][k] \in Redis!Command
    BY <2>1
  <2> QED
    BY <2>1, <2>2, <2>3
<1>01. contexts \in Nat /\ call.on \in (1..contexts) \cup {NULL} /\ Method \subseteq Redis!Known
  BY DEF CleanInv, DoneInv, Redis!Bounds, Redis!Methods
<1>2. CASE Redis!GetRedisConnect
  <2>1. /\ UNCHANGED <<err, pc, calls, call, ret, wire, replies, effect>> /\ pc = "idle"
        /\ contexts' = contexts + 1 /\ (m_pContext' = contexts + 1 \/ m_pContext' = NULL)
    BY <1>2 DEF Redis!GetRedisConnect, Redis!serverVars
  <2>2. Succeeded => Succeeded'
    BY <2>1 DEF Succeeded, OnWire
  <2>3. ~(Redis!Usable /\ call.on = m_pContext)'
    BY <1>01, <2>1 DEF Redis!Usable
  <2>4. Unanswered => Unanswered'
    BY <2>1, <2>3 DEF Unanswered, Redis!Failed
  <2>5. call'.on \in (1..contexts') \cup {NULL}
    BY <1>01, <2>1
  <2> QED
    BY <2>1, <2>2, <2>4, <2>5 DEF DoneInv
<1>10. CASE Redis!Destroy
  <2>1. UNCHANGED <<contexts, calls, call, wire, replies, effect>> /\ pc' = "gone"
    BY <1>10 DEF Redis!Destroy, Redis!serverVars
  <2> QED
    BY <2>1 DEF DoneInv
<1>11. CASE UNCHANGED Redis!vars
  <2>1. UNCHANGED <<m_pContext, err, contexts, pc, calls, call, ret, wire, replies, effect>>
    BY <1>11 DEF Redis!vars, Redis!clientVars, Redis!serverVars
  <2>2. (Succeeded => Succeeded') /\ (Unanswered => Unanswered') /\ \A c, n : OnWire(c, n)' <=> OnWire(c, n)
    BY <2>1 DEF Succeeded, Unanswered, OnWire, Redis!Usable, Redis!Failed
  <2> QED
    BY <2>1, <2>2 DEF DoneInv
<1>3. ASSUME NEW name \in Method, NEW a \in Value, Redis!Send(name, a) PROVE DoneInv'
  <2>1. /\ pc = "idle" /\ calls' = calls + 1 /\ calls < RedisCalls /\ UNCHANGED <<m_pContext, err, contexts, replies, effect>>
        /\ call' = [id |-> calls + 1, method |-> name, arg |-> a, on |-> m_pContext]
    BY <1>3 DEF Redis!Send
  <2>2. CASE Redis!Usable
    <3>1. pc' = "wait" /\ wire' = [wire EXCEPT ![m_pContext] = Append(@, call')] /\ wire[m_pContext] = <<>>
      BY <1>3, <2>1, <2>2 DEF Redis!Send, CleanInv
    <3>2. wire'[m_pContext] = <<call'>> /\ \A c \in Redis!Context \ {m_pContext} : wire'[c] = wire[c]
      BY <1>1, <2>2, <3>1, OneElement DEF DoneInv
    <3>3. call' \in Redis!Command
      BY <1>1, <2>1, <2>2 DEF Redis!Command
    <3>4. wire' \in [Redis!Context -> Seq(Redis!Command)]
      <4>1. <<call'>> \in Seq(Redis!Command) /\ wire' = [wire EXCEPT ![m_pContext] = <<call'>>]
        BY <1>0, <3>1, <3>3, OneElement
      <4> QED
        BY <1>0, <4>1
    <3>5. \A c \in Redis!Context : \A k \in 1..Len(wire'[c]) : wire'[c][k].id <= calls'
      <4> SUFFICES ASSUME NEW c \in Redis!Context, NEW k \in 1..Len(wire'[c]) PROVE wire'[c][k].id <= calls'
        OBVIOUS
      <4>1. CASE c = m_pContext
        BY <1>1, <2>1, <3>2, <4>1
      <4>2. CASE c /= m_pContext
        <5>1. wire'[c] = wire[c] /\ wire[c][k].id <= calls /\ wire[c][k].id \in Nat
          BY <1>0, <3>2, <4>2
        <5> QED
          BY <1>1, <2>1, <5>1
      <4> QED
        BY <4>1, <4>2
    <3>6. ASSUME NEW c \in Redis!Context \ {m_pContext} PROVE ~OnWire(c, call.id)'
      <4>1. \A k \in 1..Len(wire[c]) : wire[c][k].id <= calls /\ wire[c][k].id \in Nat
        BY <1>0
      <4> QED
        BY <1>1, <2>1, <3>2, <4>1 DEF OnWire
    <3>7. calls' \in 0..RedisCalls /\ call'.id = calls' /\ call'.method \in Method
      BY <1>1, <2>1
    <3>8. wire'[m_pContext'] /= <<>> /\ pc' = "wait"
      BY <2>1, <3>1, <3>2
    <3>9. \A c \in Redis!Context \ {m_pContext'} : ~OnWire(c, call.id)'
      BY <2>1, <3>6
    <3>10. call'.on \in (1..contexts') \cup {NULL}
      BY <2>1 DEF CleanInv
    <3> QED
      BY <3>4, <3>5, <3>7, <3>8, <3>9, <3>10 DEF DoneInv
  <2>3. CASE ~Redis!Usable
    <3>1. ret' \in Redis!Result(name, Redis!NoReply) /\ pc' = "idle" /\ wire' = wire
      BY <1>3, <2>1, <2>3 DEF Redis!Send
    <3>2. name \notin {"hdel", "ping"} => Redis!Failed'
      BY <1>01, <3>1, NoReplyFails DEF Redis!Failed, Fails
    <3>3. \A c \in Redis!Context : \A k \in 1..Len(wire[c]) : wire[c][k].id <= calls + 1
      BY <1>0, <1>1
    <3>4. call'.on \in (1..contexts') \cup {NULL} /\ call'.method = name /\ call'.id = calls'
      BY <2>1 DEF CleanInv
    <3>5. ~Redis!Usable'
      BY <2>1, <2>3 DEF Redis!Usable
    <3>6. Unanswered'
      BY <3>2, <3>4, <3>5 DEF Unanswered
    <3>7. wire' \in [Redis!Context -> Seq(Redis!Command)] /\ \A c \in Redis!Context : \A k \in 1..Len(wire'[c]) : wire'[c][k].id <= calls'
      BY <1>0, <2>1, <3>1, <3>3
    <3>8. calls' \in 0..RedisCalls
      BY <1>1, <2>1
    <3> QED
      BY <3>1, <3>4, <3>6, <3>7, <3>8 DEF DoneInv
  <2> QED
    BY <2>2, <2>3
<1>4. CASE Redis!Receive
  <2>1. /\ pc = "wait" /\ pc' = "idle" /\ UNCHANGED <<contexts, calls, call, wire, effect>>
        /\ ret' \in Redis!Result(call.method, Head(replies[m_pContext]).reply) /\ replies[m_pContext] /= <<>>
    BY <1>4 DEF Redis!Receive
  <2>2. wire[m_pContext] = <<>> /\ Redis!Usable
    BY <2>1 DEF CleanInv, InFlight
  <2>3. call.id \in DOMAIN effect /\ Head(replies[m_pContext]).reply = effect[call.id].reply
    BY <2>1, <2>2, OneElement DEF DoneInv
  <2>4. \A c \in Redis!Context : ~OnWire(c, call.id)
    BY <2>1, <2>2 DEF DoneInv, OnWire
  <2>5. Succeeded'
    BY <2>1, <2>3, <2>4 DEF Succeeded, OnWire
  <2> QED
    BY <2>1, <2>5 DEF DoneInv
<1>5. CASE Redis!Timeout
  <2>1. /\ pc' = "idle" /\ UNCHANGED <<m_pContext, contexts, calls, call, wire, replies, effect>>
        /\ ret' \in Redis!Result(call.method, Redis!NoReply) /\ err' = err \cup {m_pContext}
    BY <1>5 DEF Redis!Timeout, Redis!serverVars
  <2>2. calls > 0 /\ call.method \notin {"hdel", "ping"} => Redis!Failed'
    BY <1>01, <2>1, NoReplyFails DEF Redis!Failed, Fails, DoneInv
  <2>3. ~Redis!Usable'
    BY <2>1 DEF Redis!Usable
  <2>4. calls > 0 => Unanswered'
    BY <2>1, <2>2, <2>3 DEF Unanswered
  <2> QED
    BY <2>1, <2>4 DEF DoneInv
<1>6. ASSUME NEW c \in Redis!Context, Redis!Serve(c) PROVE DoneInv'
  <2> DEFINE id == wire[c][1].id
  <2>1. PICK x, y : /\ wire[c] /= <<>> /\ wire' = [wire EXCEPT ![c] = Tail(@)]
                    /\ replies' = [replies EXCEPT ![c] = Append(@, [id |-> Head(wire[c]).id, reply |-> x])]
                    /\ effect' = Redis!WithIn(effect, Head(wire[c]).id, [reply |-> x, changed |-> y])
    BY <1>6 DEF Redis!Serve
  <2>2. UNCHANGED <<m_pContext, err, contexts, pc, calls, call, ret>>
    BY <1>6 DEF Redis!Serve, Redis!clientVars
  <2>3. wire[c] \in Seq(Redis!Command) /\ Len(wire[c]) > 0 /\ Head(wire[c]).id = id
    BY <1>0, <2>1
  <2>12. OnWire(c, id)
    BY <2>3 DEF OnWire
  <2>4. /\ wire'[c] = Tail(wire[c]) /\ Tail(wire[c]) \in Seq(Redis!Command)
        /\ Len(wire'[c]) = Len(wire[c]) - 1 /\ \A k \in 1..Len(wire'[c]) : k + 1 \in 1..Len(wire[c]) /\ wire'[c][k] = wire[c][k + 1]
    BY <1>0, <2>1, <2>3
  <2>5. \A e \in Redis!Context \ {c} : wire'[e] = wire[e] /\ replies'[e] = replies[e]
    BY <2>1 DEF CleanInv
  <2>6. \A e \in Redis!Context : \A n : OnWire(e, n)' => OnWire(e, n)
    <3> SUFFICES ASSUME NEW e \in Redis!Context, NEW n, NEW k \in 1..Len(wire'[e]), wire'[e][k].id = n
                 PROVE  \E q \in 1..Len(wire[e]) : wire[e][q].id = n
      BY DEF OnWire
    <3> QED
      BY <2>4, <2>5
  <2>7. \A e \in Redis!Context : \A k \in 1..Len(wire'[e]) : wire'[e][k].id <= calls'
    BY <1>0, <2>2, <2>4, <2>5
  <2>8. wire' \in [Redis!Context -> Seq(Redis!Command)]
    BY <1>0, <2>1, <2>4
  <2>9. /\ DOMAIN effect' = DOMAIN effect \cup {id} /\ effect'[id].reply = x
        /\ \A n \in DOMAIN effect \ {id} : effect'[n] = effect[n]
    BY <2>1, <2>3 DEF Redis!WithIn
  <2> HIDE DEF id
  <2>10. ASSUME pc = "wait"
         PROVE  /\ \A e \in Redis!Context \ {m_pContext} : ~OnWire(e, call.id)'
                /\ wire'[m_pContext] = <<>> =>
                       /\ call.id \in DOMAIN effect'
                       /\ replies'[m_pContext] = <<[id |-> call.id, reply |-> effect'[call.id].reply]>>
    <3>1. \A e \in Redis!Context \ {m_pContext} : ~OnWire(e, call.id)'
      BY <2>2, <2>6, <2>10 DEF DoneInv
    <3>2. CASE c = m_pContext
      <4>1. wire[c] = <<call>> /\ replies[c] = <<>>
        BY <2>1, <2>10, <3>2 DEF CleanInv, InFlight
      <4>2. id = call.id /\ replies'[c] = <<[id |-> id, reply |-> x]>>
        BY <2>1, <2>3, <4>1, OneElement DEF CleanInv
      <4> QED
        BY <2>9, <3>1, <3>2, <4>2
    <3>3. CASE c /= m_pContext
      <4>1. id /= call.id /\ m_pContext \in Redis!Context
        BY <1>1, <2>12, <2>10, <3>3 DEF DoneInv, CleanInv
      <4> QED
        BY <2>5, <2>9, <2>10, <3>1, <3>3, <4>1 DEF DoneInv
    <3> QED
      BY <3>2, <3>3
  <2>11. ASSUME pc = "idle", calls > 0 PROVE (Succeeded \/ Unanswered)'
    <3>1. CASE Unanswered
      BY <2>2, <3>1 DEF Unanswered, Redis!Failed, Redis!Usable
    <3>2. CASE Succeeded
      <4>1. id /= call.id
        BY <2>12, <3>2 DEF Succeeded
      <4> QED
        BY <2>2, <2>6, <2>9, <3>2, <4>1 DEF Succeeded
    <3> QED
      BY <2>11, <3>1, <3>2 DEF DoneInv
  <2> QED
    BY <2>2, <2>7, <2>8, <2>10, <2>11 DEF DoneInv
<1> QED
  BY <1>2, <1>3, <1>4, <1>5, <1>6, <1>10, <1>11 DEF Redis!Next

-----------------------------------------------------------------------------
(* The types of everything, and what the command of the last call did.     *)
MoreInv ==
    /\ pc \in {"idle", "wait", "gone"} /\ (pc = "wait" => calls > 0) /\ err \subseteq Redis!Context
    /\ call \in Redis!Command \cup {Redis!NoCall}
    /\ ret.kind \in Kinds /\ ret.n \in Int /\ ret.n >= -1
    /\ DOMAIN effect \subseteq 1..calls
    /\ \A n \in DOMAIN effect : effect[n].reply.n \in Nat
    /\ Typed(db)
    /\ \A c \in Redis!Context : \A k \in 1..Len(wire[c]) : wire[c][k].id = call.id => wire[c][k].method = call.method
    /\ call.id \in DOMAIN effect =>
          Harmless(call.method, effect[call.id].reply, effect[call.id].changed = FALSE)

LEMMA MoreStep ==
    ASSUME Redis!Bounds, Redis!Methods, Redis!Strings, CleanInv, DoneInv, MoreInv, [Redis!Next]_Redis!vars
    PROVE  MoreInv'
<1>1. /\ MaxContexts \in Nat /\ RedisCalls \in Nat /\ calls \in Nat /\ call.id = calls
      /\ (Redis!Usable => m_pContext \in Redis!Context) /\ m_pContext \in Redis!Context \cup {NULL}
      /\ Method \subseteq Redis!Known /\ (calls > 0 => call.method \in Redis!Known) /\ EMPTY \in Value
  BY DEF Redis!Bounds, Redis!Context, CleanInv, DoneInv, Redis!Usable, Redis!Methods, Redis!Strings
<1>0. /\ wire \in [Redis!Context -> Seq(Redis!Command)]
      /\ \A c \in Redis!Context : \A k \in 1..Len(wire[c]) : wire[c][k] \in Redis!Command /\ wire[c][k].id <= calls /\ wire[c][k].id \in Nat
  <2>1. wire \in [Redis!Context -> Seq(Redis!Command)] /\ \A c \in Redis!Context : \A k \in 1..Len(wire[c]) : wire[c][k].id <= calls
    BY DEF DoneInv
  <2>2. \A x \in Redis!Command : x.id \in Nat
    BY DEF Redis!Command
  <2>3. \A c \in Redis!Context : \A k \in 1..Len(wire[c]) : wire[c][k] \in Redis!Command
    BY <2>1
  <2> QED
    BY <2>1, <2>2, <2>3
<1>01. Redis!NoReply.n \in Nat
  BY DEF Redis!NoReply
<1>2. CASE Redis!GetRedisConnect \/ Redis!Destroy \/ UNCHANGED Redis!vars
  <2>1. UNCHANGED <<err, calls, call, ret, wire, db, effect>> /\ (pc' = pc \/ pc' = "gone")
    BY <1>2 DEF Redis!GetRedisConnect, Redis!Destroy, Redis!vars, Redis!clientVars, Redis!serverVars
  <2>2. (Typed(db))' <=> Typed(db)
    BY <2>1 DEF Typed
  <2> QED
    BY <2>1, <2>2 DEF MoreInv
<1>3. ASSUME NEW name \in Method, NEW a \in Value, Redis!Send(name, a) PROVE MoreInv'
  <2>1. /\ pc = "idle" /\ calls' = calls + 1 /\ calls < RedisCalls /\ UNCHANGED <<m_pContext, err, db, effect>>
        /\ call' = [id |-> calls + 1, method |-> name, arg |-> a, on |-> m_pContext]
    BY <1>3 DEF Redis!Send
  <2>2. call' \in Redis!Command /\ call'.id = calls + 1 /\ call'.method = name
    BY <1>1, <2>1 DEF Redis!Command
  <2>3. DOMAIN effect' \subseteq 1..calls' /\ call'.id \notin DOMAIN effect'
    BY <1>1, <2>1, <2>2 DEF MoreInv
  <2>4. /\ pc' \in {"idle", "wait", "gone"} /\ ret'.kind \in Kinds /\ ret'.n \in Int /\ ret'.n >= -1
        /\ \A c \in Redis!Context : \A k \in 1..Len(wire'[c]) : wire'[c][k].id = call'.id => wire'[c][k].method = call'.method
    <3>1. CASE Redis!Usable
      <4>1. pc' = "wait" /\ ret' = ret /\ wire' = [wire EXCEPT ![m_pContext] = Append(@, call')] /\ wire[m_pContext] = <<>>
        BY <1>3, <2>1, <3>1 DEF Redis!Send, CleanInv
      <4>2. wire'[m_pContext] = <<call'>> /\ \A c \in Redis!Context \ {m_pContext} : wire'[c] = wire[c]
        BY <1>0, <1>1, <3>1, <4>1, OneElement
      <4>3. \A c \in Redis!Context : \A k \in 1..Len(wire'[c]) : wire'[c][k] = call' \/ wire'[c][k].id # call'.id
        <5> SUFFICES ASSUME NEW c \in Redis!Context, NEW k \in 1..Len(wire'[c]) PROVE wire'[c][k] = call' \/ wire'[c][k].id # call'.id
          OBVIOUS
        <5>1. CASE c = m_pContext
          BY <4>2, <5>1
        <5>2. CASE c # m_pContext
          <6>1. wire'[c] = wire[c] /\ wire[c][k].id <= calls /\ wire[c][k].id \in Nat
            BY <1>0, <4>2, <5>2
          <6> QED
            BY <1>1, <2>2, <6>1
        <5> QED
          BY <5>1, <5>2
      <4>4. ret'.kind \in Kinds /\ ret'.n \in Int /\ ret'.n >= -1
        BY <4>1 DEF MoreInv
      <4>5. pc' \in {"idle", "wait", "gone"}
        BY <4>1
      <4> QED
        BY <4>3, <4>4, <4>5
    <3>2. CASE ~Redis!Usable
      <4>1. ret' \in Redis!Result(name, Redis!NoReply) /\ pc' = pc /\ wire' = wire
        BY <1>3, <3>2 DEF Redis!Send
      <4>2. ret'.kind \in Kinds /\ ret'.n \in Int /\ ret'.n >= -1
        BY <1>1, <1>01, <4>1, ResultTyped
      <4>3. \A c \in Redis!Context : \A k \in 1..Len(wire'[c]) : wire'[c][k].id # call'.id
        BY <1>0, <1>1, <2>2, <4>1
      <4> QED
        BY <4>1, <4>2, <4>3 DEF MoreInv
    <3> QED
      BY <3>1, <3>2
  <2>5. (Typed(db))' /\ err' \subseteq Redis!Context
    BY <2>1 DEF Typed, MoreInv
  <2>6. \A n \in DOMAIN effect' : effect'[n].reply.n \in Nat
    BY <2>1 DEF MoreInv
  <2>7. calls' > 0
    BY <1>1, <2>1
  <2> QED
    BY <2>2, <2>3, <2>4, <2>5, <2>6, <2>7 DEF MoreInv
<1>4. CASE Redis!Receive \/ Redis!Timeout
  <2>1. /\ pc = "wait" /\ pc' = "idle" /\ UNCHANGED <<calls, call, wire, db, effect>>
        /\ err' = err \/ err' = err \cup {m_pContext}
    BY <1>4 DEF Redis!Receive, Redis!Timeout, Redis!serverVars
  <2>2. \E r : r.n \in Nat /\ ret' \in Redis!Result(call.method, r)
    <3>1. CASE Redis!Receive
      <4>1. replies[m_pContext] # <<>> /\ ret' \in Redis!Result(call.method, Head(replies[m_pContext]).reply)
        BY <3>1 DEF Redis!Receive
      <4>2. wire[m_pContext] = <<>>
        BY <2>1, <4>1 DEF CleanInv, InFlight
      <4>3. call.id \in DOMAIN effect /\ Head(replies[m_pContext]).reply = effect[call.id].reply
        BY <2>1, <4>2, OneElement DEF DoneInv
      <4> QED
        BY <4>1, <4>3 DEF MoreInv
    <3>2. CASE Redis!Timeout
      BY <1>01, <3>2 DEF Redis!Timeout
    <3> QED
      BY <1>4, <3>1, <3>2
  <2>3. ret'.kind \in Kinds /\ ret'.n \in Int /\ ret'.n >= -1
    BY <1>1, <2>1, <2>2, ResultTyped DEF MoreInv
  <2>4. (Typed(db))' /\ err' \subseteq Redis!Context
    <3>1. Redis!Usable
      BY <2>1 DEF CleanInv
    <3>2. m_pContext \in Redis!Context
      BY <1>1, <3>1
    <3> QED
      BY <2>1, <3>2 DEF Typed, MoreInv
  <2> QED
    BY <2>1, <2>3, <2>4 DEF MoreInv
<1>6. ASSUME NEW c \in Redis!Context, Redis!Serve(c) PROVE MoreInv'
  <2>1. PICK p : p = Head(wire[c])
    OBVIOUS
  <2>2. wire[c] \in Seq(Redis!Command) /\ Len(wire[c]) > 0 /\ p = wire[c][1] /\ 1 \in 1..Len(wire[c])
    <3>1. wire[c] \in Seq(Redis!Command) /\ wire[c] # <<>>
      BY <1>0, <1>6 DEF Redis!Serve
    <3> QED
      BY <2>1, <3>1
  <2>3. p.id \in 1..calls /\ p.method \in Redis!Known /\ p.arg \in Value /\ (p.id = call.id => p.method = call.method)
    <3>1. p \in Redis!Command /\ p.id <= calls
      BY <1>0, <2>2
    <3>2. p.id \in Nat /\ p.id >= 1 /\ p.method \in Method /\ p.arg \in Value
      BY <1>1, <3>1 DEF Redis!Command
    <3>3. p.id = call.id => p.method = call.method
      BY <2>2 DEF MoreInv
    <3> QED
      BY <1>1, <3>1, <3>2, <3>3
  <2>4. PICK o \in Redis!Perform(p.method, p.arg) :
            /\ db' = o.db
            /\ effect' = Redis!WithIn(effect, p.id, [reply |-> o.reply, changed |-> o.db # db])
    BY <1>6, <2>1 DEF Redis!Serve
  <2>5. UNCHANGED <<err, pc, calls, call, ret>> /\ wire' = [wire EXCEPT ![c] = Tail(@)]
    BY <1>6 DEF Redis!Serve, Redis!clientVars
  <2>6. Right(p.method, o)
    BY <1>1, <2>3, <2>4, PerformRight DEF MoreInv
  <2>7. PICK r, b : r = o.reply /\ b = (o.db # db)
    OBVIOUS
  <2>8. /\ DOMAIN effect' = DOMAIN effect \cup {p.id} /\ effect'[p.id] = [reply |-> r, changed |-> b]
        /\ \A n \in DOMAIN effect : n # p.id => effect'[n] = effect[n]
    BY <2>4, <2>7 DEF Redis!WithIn
  <2>9. effect'[p.id].reply = r /\ effect'[p.id].changed = b
    BY <2>8
  <2>10. r.n \in Nat /\ Typed(o.db) /\ Harmless(p.method, r, o.db = db)
    BY <2>6, <2>7 DEF Right
  <2>11. Harmless(p.method, r, b = FALSE)
    <3>1. (o.db = db) = TRUE => (b = FALSE) = TRUE
      BY <2>7
    <3> QED
      BY <2>10, <3>1 DEF Harmless
  <2>12. call.id \in DOMAIN effect' => Harmless(call.method, effect'[call.id].reply, effect'[call.id].changed = FALSE)
    <3>1. CASE call.id = p.id
      BY <2>3, <2>9, <2>11, <3>1
    <3>2. CASE call.id # p.id
      BY <2>8, <3>2 DEF MoreInv
    <3> QED
      BY <3>1, <3>2
  <2>13. DOMAIN effect' \subseteq 1..calls' /\ \A n \in DOMAIN effect' : effect'[n].reply.n \in Nat
    BY <2>3, <2>5, <2>8, <2>9, <2>10 DEF MoreInv
  <2>14. (Typed(db))'
    BY <2>4, <2>10 DEF Typed
  <2>15. \A e \in Redis!Context : \A k \in 1..Len(wire'[e]) : wire'[e][k].id = call'.id => wire'[e][k].method = call'.method
    <3> SUFFICES ASSUME NEW e \in Redis!Context, NEW k \in 1..Len(wire'[e]), wire'[e][k].id = call'.id
                 PROVE  wire'[e][k].method = call'.method
      OBVIOUS
    <3>1. CASE e = c
      <4>1. PICK w, v : w = wire[c] /\ v = wire'[c] /\ v = Tail(w)
        BY <1>0, <2>5
      <4>2. w \in Seq(Redis!Command) /\ Len(w) > 0
        BY <2>2, <4>1
      <4>3. k + 1 \in 1..Len(w) /\ v[k] = w[k + 1]
        BY <3>1, <4>1, <4>2
      <4> QED
        BY <2>5, <3>1, <4>1, <4>3 DEF MoreInv
    <3>2. CASE e # c
      <4>1. wire'[e] = wire[e]
        BY <2>5, <3>2, <1>0
      <4> QED
        BY <2>5, <4>1 DEF MoreInv
    <3> QED
      BY <3>1, <3>2
  <2> QED
    BY <2>5, <2>12, <2>13, <2>14, <2>15 DEF MoreInv
<1> QED
  BY <1>2, <1>3, <1>4, <1>6 DEF Redis!Next

LEMMA MoreInit == Redis!Bounds /\ Redis!Init => CleanInv /\ DoneInv /\ MoreInv
<1> SUFFICES ASSUME Redis!Bounds, Redis!Init PROVE CleanInv /\ DoneInv /\ MoreInv
  OBVIOUS
<1>1. CleanInv
  BY DEF Redis!Init, CleanInv, Redis!Usable, Redis!Bounds
<1>2. <<>> \in Seq(Redis!Command) /\ Len(<<>>) = 0 /\ DOMAIN <<>> = {}
  OBVIOUS
<1>3. call = Redis!NoCall /\ call.id = 0 /\ call.on = NULL
  BY DEF Redis!Init, Redis!NoCall
<1>4. DoneInv
  BY <1>2, <1>3 DEF Redis!Init, DoneInv, Redis!Bounds
<1>5. ret.kind \in Kinds /\ ret.n \in Int /\ ret.n >= -1
  BY DEF Redis!Init, Redis!Num, Kinds
<1>6. Typed(db)
  BY DEF Redis!Init, Typed
<1>7. MoreInv
  BY <1>2, <1>3, <1>5, <1>6 DEF Redis!Init, MoreInv
<1> QED
  BY <1>1, <1>4, <1>7

LEMMA TypesAre == Redis!Bounds /\ CleanInv /\ DoneInv /\ MoreInv => Redis!TypeOK
<1> SUFFICES ASSUME Redis!Bounds, CleanInv, DoneInv, MoreInv PROVE Redis!TypeOK
  OBVIOUS
<1>1. wire \in [Redis!Context -> Seq(Redis!Command)]
  BY DEF DoneInv
<1>2. \A c \in Redis!Context : wire[c] \in Seq(Redis!Command)
  BY <1>1
<1> QED
  BY <1>2 DEF Redis!TypeOK, CleanInv, DoneInv, MoreInv, Kinds

LEMMA FailuresRepeat == DoneInv /\ MoreInv => Redis!FailureIsRepeatable
<1> SUFFICES ASSUME DoneInv, MoreInv, pc = "idle", calls > 0, Redis!Failed, Redis!Usable, call.on = m_pContext, call.id \in DOMAIN effect
             PROVE  \/ ~effect[call.id].changed
                    \/ call.method \in {"rpop", "spop"} /\ effect[call.id].reply = Redis!Bulk(<<EMPTY>>)
  BY DEF Redis!FailureIsRepeatable
<1>1. ret \in Redis!Result(call.method, effect[call.id].reply)
  BY DEF DoneInv, Succeeded, Unanswered
<1>2. Fails(ret)
  BY DEF Fails, Redis!Failed
<1> QED
  BY <1>1, <1>2 DEF MoreInv, Harmless

LEMMA RepliesAreOwn == CleanInv => Redis!ContextIsClean
<1> SUFFICES ASSUME CleanInv, Redis!Usable
             PROVE  LET pending == wire[m_pContext] \o replies[m_pContext]
                    IN  IF pc = "wait" THEN Len(pending) = 1 /\ pending[1].id = call.id ELSE pending = <<>>
  BY DEF Redis!ContextIsClean
<1>1. CASE pc # "wait"
  BY <1>1 DEF CleanInv
<1>2. CASE pc = "wait" /\ wire[m_pContext] = <<call>> /\ replies[m_pContext] = <<>>
  BY <1>2
<1>3. ASSUME pc = "wait", wire[m_pContext] = <<>>, NEW r, replies[m_pContext] = <<[id |-> call.id, reply |-> r]>>
      PROVE  Len(wire[m_pContext] \o replies[m_pContext]) = 1 /\ (wire[m_pContext] \o replies[m_pContext])[1].id = call.id
  BY <1>3
<1> QED
  BY <1>1, <1>2, <1>3 DEF CleanInv, InFlight

(* CRedisClient: a context that can be used holds nothing of an earlier call,
   a method that succeeds was carried out and answered, and one that fails
   may be repeated (RedisClient.cpp).                                      *)
THEOREM RedisSafe ==
    ASSUME Redis!Bounds, Redis!Methods, Redis!Strings
    PROVE  Redis!Spec => [](Redis!TypeOK /\ Redis!ContextIsClean /\ Redis!SuccessMeansDone /\ Redis!FailureIsRepeatable)
<1> DEFINE RedisInv == CleanInv /\ DoneInv /\ MoreInv
<1>1. Redis!Init => RedisInv
  BY MoreInit
<1>2. RedisInv /\ [Redis!Next]_Redis!vars => RedisInv'
  BY CleanStep, DoneStep, MoreStep
<1>3. DoneInv => Redis!SuccessMeansDone
  BY DEF DoneInv, Redis!SuccessMeansDone, Succeeded, Unanswered
<1>4. RedisInv => Redis!TypeOK /\ Redis!ContextIsClean /\ Redis!SuccessMeansDone /\ Redis!FailureIsRepeatable
  BY <1>3, TypesAre, RepliesAreOwn, FailuresRepeat
<1> QED
  BY <1>1, <1>2, <1>4, PTL DEF Redis!Spec

-----------------------------------------------------------------------------
(* CKafkaConsumer.  The numbers of a list have a digit or two.             *)
Numbers == 0..99
Digit == 0..9

(* A number's digits.                                                      *)
LEMMA DigitsAre ==
    ASSUME NEW x \in 0..99
    PROVE  /\ Consumer!Digits(x) \in Seq(Digit) /\ Consumer!Digits(x) \in Seq(Int) /\ Len(Consumer!Digits(x)) \in 1..2
           /\ Len(Consumer!Digits(x)) = 1 => Consumer!Digits(x)[1] = x
           /\ Len(Consumer!Digits(x)) = 2 => 10 * Consumer!Digits(x)[1] + Consumer!Digits(x)[2] = x
<1>1. x < 10 \/ ~(x < 10)
  OBVIOUS
<1>2. CASE x < 10
  <2>1. Consumer!Digits(x) = <<x>> /\ x \in Digit
    BY <1>2 DEF Consumer!Digits, Digit
  <2> QED
    BY <2>1
<1>3. CASE ~(x < 10)
  <2>1. PICK a \in Int, b \in Int : a = x \div 10 /\ b = x % 10
    OBVIOUS
  <2>2. a \in Digit /\ b \in Digit /\ 10 * a + b = x
    BY <1>3, <2>1 DEF Digit
  <2>3. Consumer!Digits(x) = <<a, b>>
    BY <1>3, <2>1 DEF Consumer!Digits
  <2> QED
    BY <2>2, <2>3
<1> QED
  BY <1>1, <1>2, <1>3

LEMMA AtoiIs ==
    ASSUME NEW x \in 0..99
    PROVE  Consumer!atoi(Consumer!Digits(x)) = x
<1> DEFINE t == Consumer!Digits(x)
<1> DEFINE Is(f) == f = [n \in 0..Len(t) |-> IF n = 0 THEN 0 ELSE 10 * f[n - 1] + t[n]]
<1>1. t \in Seq(Int) /\ Len(t) \in {1, 2} /\ t[1] \in Int /\ (Len(t) = 2 => t[2] \in Int)
  <2>1. t \in Seq(Int) /\ Len(t) \in 1..2
    BY DigitsAre
  <2> HIDE DEF t
  <2> QED
    BY <2>1
<1>2. \E f : Is(f)
  <2> DEFINE g == [n \in 0..Len(t) |-> IF n = 0 THEN 0 ELSE IF n = 1 THEN t[1] ELSE 10 * t[1] + t[2]]
  <2>1. ASSUME NEW n \in 0..Len(t) PROVE g[n] = IF n = 0 THEN 0 ELSE 10 * g[n - 1] + t[n]
    <3>1. CASE n = 0
      BY <3>1
    <3>2. CASE n = 1
      <4>1. 0 \in 0..Len(t) /\ g[0] = 0 /\ g[1] = t[1]
        BY <1>1, <3>2
      <4> QED
        BY <1>1, <3>2, <4>1
    <3>3. CASE n = 2
      <4>1. 1 \in 0..Len(t) /\ 2 \in 0..Len(t) /\ g[1] = t[1] /\ g[2] = 10 * t[1] + t[2]
        BY <1>1, <3>3
      <4>2. n - 1 = 1 /\ n /= 0
        BY <3>3
      <4> QED
        BY <3>3, <4>1, <4>2
    <3>4. n = 0 \/ n = 1 \/ n = 2
      <4>1. n \in 0..Len(t) /\ (Len(t) = 1 \/ Len(t) = 2)
        BY <1>1
      <4>2. ASSUME NEW l, n \in 0..l, l = 1 \/ l = 2 PROVE n = 0 \/ n = 1 \/ n = 2
        BY <4>2
      <4> QED
        BY <4>1, <4>2, Zenon
    <3> QED
      BY <3>1, <3>2, <3>3, <3>4, Zenon
  <2>2. g = [n \in 0..Len(t) |-> g[n]]
    OBVIOUS
  <2> HIDE DEF g
  <2>3. Is(g)
    BY <2>1, <2>2
  <2> QED
    BY <2>3
<1>3. Consumer!atoi(t) = (CHOOSE f : Is(f))[Len(t)]
  BY DEF Consumer!atoi
<1>4. PICK f : f = (CHOOSE h : Is(h)) /\ Is(f)
  BY <1>2
<1>5. f[0] = 0 /\ f[1] = 10 * f[0] + t[1] /\ (Len(t) = 2 => f[2] = 10 * f[1] + t[2])
  <2>1. \A n \in 0..Len(t) : f[n] = IF n = 0 THEN 0 ELSE 10 * f[n - 1] + t[n]
    <3>1. PICK h : h = [n \in 0..Len(t) |-> IF n = 0 THEN 0 ELSE 10 * f[n - 1] + t[n]] /\ h = f
      BY <1>4
    <3> QED
      BY <3>1
  <2>2. 0 \in 0..Len(t) /\ 1 \in 0..Len(t) /\ (Len(t) = 2 => 2 \in 0..Len(t)) /\ 1 - 1 = 0 /\ 2 - 1 = 1
    BY <1>1
  <2> QED
    BY <2>1, <2>2
<1> HIDE DEF Is
<1>6. f[Len(t)] = x
  <2>1. CASE Len(t) = 1
    <3>1. t[1] = x
      BY <2>1, DigitsAre
    <3> QED
      BY <1>1, <1>5, <2>1, <3>1
  <2>2. CASE Len(t) = 2
    <3>1. 10 * t[1] + t[2] = x
      BY <2>2, DigitsAre
    <3>2. f[1] = t[1] /\ f[2] = 10 * f[1] + t[2]
      BY <1>1, <1>5, <2>2
    <3> QED
      BY <2>2, <3>1, <3>2
  <2> QED
    BY <1>1, <2>1, <2>2
<1> QED
  BY <1>3, <1>4, <1>6

-----------------------------------------------------------------------------
(* The text of the first n numbers of a list, each behind a comma.         *)
IsUpTo(list, n, f) ==
    f = [k \in 0..n |-> IF k = 0 THEN <<>> ELSE f[k - 1] \o <<Consumer!COMMA>> \o Consumer!Digits(list[k])]

LEMMA UpToExists ==
    ASSUME NEW list, NEW n \in Nat
    PROVE  \E f : IsUpTo(list, n, f)
<1> DEFINE A == {low \in Nat : \E f : IsUpTo(list, low, f)}
<1>1. 0 \in A
  <2>1. IsUpTo(list, 0, [k \in 0..0 |-> <<>>])
    BY DEF IsUpTo
  <2> QED
    BY <2>1
<1>2. ASSUME NEW low \in Nat, low \in A PROVE low + 1 \in A
  <2>1. PICK f : IsUpTo(list, low, f)
    BY <1>2
  <2>2. /\ f[0] = <<>>
        /\ \A k \in 1..low : f[k] = f[k - 1] \o <<Consumer!COMMA>> \o Consumer!Digits(list[k])
    <3>1. PICK h : h = [k \in 0..low |-> IF k = 0 THEN <<>> ELSE f[k - 1] \o <<Consumer!COMMA>> \o Consumer!Digits(list[k])] /\ h = f
      BY <2>1 DEF IsUpTo
    <3>2. \A k \in 0..low : h[k] = IF k = 0 THEN <<>> ELSE f[k - 1] \o <<Consumer!COMMA>> \o Consumer!Digits(list[k])
      BY <3>1
    <3>3. 0 \in 0..low /\ \A k \in 1..low : k \in 0..low /\ k # 0
      OBVIOUS
    <3> QED
      BY <3>1, <3>2, <3>3
  <2> DEFINE g == [k \in 0..(low + 1) |-> IF k <= low THEN f[k] ELSE f[low] \o <<Consumer!COMMA>> \o Consumer!Digits(list[low + 1])]
  <2>3. ASSUME NEW k \in 0..(low + 1) PROVE g[k] = IF k = 0 THEN <<>> ELSE g[k - 1] \o <<Consumer!COMMA>> \o Consumer!Digits(list[k])
    <3>1. CASE k = 0
      BY <2>2, <3>1
    <3>2. CASE k \in 1..low
      <4>1. k - 1 \in 0..(low + 1) /\ k - 1 <= low /\ k <= low /\ k # 0
        BY <3>2
      <4>2. g[k] = f[k] /\ g[k - 1] = f[k - 1]
        BY <4>1
      <4> QED
        BY <2>2, <3>2, <4>1, <4>2
    <3>3. CASE k = low + 1
      <4>1. low \in 0..(low + 1) /\ low <= low /\ ~(low + 1 <= low) /\ k # 0 /\ k - 1 = low
        BY <3>3
      <4>2. g[low] = f[low]
        BY <4>1
      <4>3. g[low + 1] = f[low] \o <<Consumer!COMMA>> \o Consumer!Digits(list[low + 1])
        <5>1. low + 1 \in 0..(low + 1) /\ ~(low + 1 <= low)
          OBVIOUS
        <5> QED
          BY <5>1, Zenon
      <4> QED
        BY <3>3, <4>1, <4>2, <4>3
    <3> QED
      BY <3>1, <3>2, <3>3
  <2>4. g = [k \in 0..(low + 1) |-> IF k = 0 THEN <<>> ELSE g[k - 1] \o <<Consumer!COMMA>> \o Consumer!Digits(list[k])]
    <3>1. g = [k \in 0..(low + 1) |-> g[k]]
      OBVIOUS
    <3> HIDE DEF g
    <3> QED
      BY <2>3, <3>1
  <2>5. IsUpTo(list, low + 1, g)
    BY <2>4 DEF IsUpTo
  <2> QED
    BY <2>5
<1> HIDE DEF A
<1>3. Nat \subseteq A
  BY <1>1, <1>2, SetInduction
<1> QED
  BY <1>3 DEF A

(* The text from the k-th number on follows that of the numbers before it. *)
LEMMA TextIs ==
    ASSUME NEW list \in Seq(Numbers), list # <<>>
    PROVE  \E U : /\ Consumer!TextOf(list) = Tail(U[Len(list)]) /\ U[0] = <<>>
                  /\ \A k \in 0..Len(list) : U[k] \in Seq(Int) /\ Len(U[k]) >= 2 * k
                  /\ \A k \in 0..(Len(list) - 1) : U[k + 1] = U[k] \o <<Consumer!COMMA>> \o Consumer!Digits(list[k + 1])
<1> DEFINE N == Len(list)
<1>0. N \in Nat
  OBVIOUS
<1>1. PICK U : U = (CHOOSE f : IsUpTo(list, N, f)) /\ IsUpTo(list, N, U)
  BY <1>0, UpToExists
<1>2. Consumer!TextOf(list) = Tail(U[N])
  BY <1>1 DEF Consumer!TextOf, IsUpTo
<1>3. \A k \in 0..N : U[k] = IF k = 0 THEN <<>> ELSE U[k - 1] \o <<Consumer!COMMA>> \o Consumer!Digits(list[k])
  <2>1. PICK h : h = [k \in 0..N |-> IF k = 0 THEN <<>> ELSE U[k - 1] \o <<Consumer!COMMA>> \o Consumer!Digits(list[k])] /\ h = U
    BY <1>1 DEF IsUpTo
  <2> QED
    BY <2>1
<1>4. U[0] = <<>>
  BY <1>0, <1>3
<1>5. \A k \in 0..(N - 1) : U[k + 1] = U[k] \o <<Consumer!COMMA>> \o Consumer!Digits(list[k + 1])
  <2> TAKE k \in 0..(N - 1)
  <2>1. k + 1 \in 0..N /\ k + 1 # 0 /\ (k + 1) - 1 = k
    BY <1>0
  <2> QED
    BY <1>3, <2>1
<1> DEFINE A == {k \in Nat : k <= N => U[k] \in Seq(Int) /\ Len(U[k]) >= 2 * k}
<1>6. 0 \in A
  <2>1. U[0] \in Seq(Int) /\ Len(U[0]) = 0
    BY <1>4
  <2> QED
    BY <2>1
<1>7. ASSUME NEW k \in Nat, k \in A PROVE k + 1 \in A
  <2> SUFFICES ASSUME k + 1 <= N PROVE U[k + 1] \in Seq(Int) /\ Len(U[k + 1]) >= 2 * (k + 1)
    OBVIOUS
  <2>1. PICK u : u = U[k]
    OBVIOUS
  <2>2. PICK x : x = list[k + 1]
    OBVIOUS
  <2>3. PICK d : d = Consumer!Digits(x)
    OBVIOUS
  <2>4. u \in Seq(Int) /\ Len(u) >= 2 * k /\ k \in 0..(N - 1)
    <3>1. k <= N => U[k] \in Seq(Int) /\ Len(U[k]) >= 2 * k
      BY <1>7
    <3>2. k <= N /\ k \in 0..(N - 1)
      BY <1>0
    <3> QED
      BY <2>1, <3>1, <3>2
  <2>5. x \in Numbers
    <3>1. k + 1 \in 1..Len(list)
      BY <1>0
    <3> QED
      BY <2>2, <3>1
  <2>6. d \in Seq(Int) /\ Len(d) >= 1 /\ U[k + 1] = u \o <<Consumer!COMMA>> \o d /\ Consumer!COMMA \in Int
    <3>1. d \in Seq(Int) /\ Len(d) \in 1..2
      BY <2>3, <2>5, DigitsAre DEF Numbers
    <3>2. U[k + 1] = u \o <<Consumer!COMMA>> \o d
      BY <1>5, <2>1, <2>2, <2>3, <2>4
    <3>3. Consumer!COMMA \in Int
      BY DEF Consumer!COMMA
    <3>4. Len(d) >= 1
      BY <3>1
    <3> QED
      BY <3>1, <3>2, <3>3, <3>4
  <2>7. PICK c : c = u \o <<Consumer!COMMA>> \o d
    OBVIOUS
  <2>8. c \in Seq(Int) /\ Len(c) = Len(u) + 1 + Len(d)
    BY <2>4, <2>6, <2>7
  <2> QED
    BY <2>4, <2>6, <2>7, <2>8
<1>8. Nat \subseteq A
  <2> HIDE DEF A
  <2> QED
    BY <1>6, <1>7, SetInduction
<1>9. \A k \in 0..N : U[k] \in Seq(Int) /\ Len(U[k]) >= 2 * k
  BY <1>0, <1>8
<1> QED
  BY <1>2, <1>4, <1>5, <1>9

-----------------------------------------------------------------------------
LEMMA Part ==
    ASSUME NEW S, NEW t \in Seq(S), NEW n \in Nat, n <= Len(t)
    PROVE  /\ SubSeq(t, n + 1, Len(t)) \in Seq(S) /\ Len(SubSeq(t, n + 1, Len(t))) = Len(t) - n
           /\ \A at \in 1..(Len(t) - n) : SubSeq(t, n + 1, Len(t))[at] = t[n + at]
OBVIOUS

LEMMA First ==
    ASSUME NEW S, NEW t \in Seq(S), NEW n \in Nat, n <= Len(t)
    PROVE  /\ SubSeq(t, 1, n) \in Seq(S) /\ Len(SubSeq(t, 1, n)) = n
           /\ \A at \in 1..n : SubSeq(t, 1, n)[at] = t[at]
OBVIOUS

LEMMA SameElements ==
    ASSUME NEW S, NEW s \in Seq(S), NEW t \in Seq(S), Len(s) = Len(t), \A at \in 1..Len(s) : s[at] = t[at]
    PROVE  s = t
OBVIOUS

LEMMA PartFrom ==
    ASSUME NEW t \in Seq(Int), NEW low \in Nat, NEW k, k = low + 1, NEW l \in Nat, l = Len(t), low <= l,
           NEW e, e = SubSeq(t, k, l)
    PROVE  e \in Seq(Int) /\ Len(e) = l - low /\ \A at \in 1..(l - low) : e[at] = t[low + at]
BY Part

(* The digits d stand behind place n + 1, and a comma or the end behind them. *)
Reads(t, n, d) ==
    /\ n + 1 + Len(d) <= Len(t)
    /\ \A at \in 1..Len(d) : t[n + 1 + at] = d[at]
    /\ n + 1 + Len(d) < Len(t) => t[n + 2 + Len(d)] = Consumer!COMMA

(* One turn reads one number: the one whose digits stand at n + 2.          *)
LEMMA TurnReads ==
    ASSUME NEW t \in Seq(Int), NEW n \in Nat, NEW x \in Numbers, NEW ls, Reads(t, n, Consumer!Digits(x))
    PROVE  Consumer!Turn([pTemp |-> SubSeq(t, n + 2, Len(t)), list |-> ls])
               = [pTemp |-> SubSeq(t, n + Len(Consumer!Digits(x)) + 3, Len(t)), list |-> Append(ls, x)]
<1>0. PICK d : d = Consumer!Digits(x)
  OBVIOUS
<1>00. PICK ld : ld = Len(d)
  OBVIOUS
<1>000. PICK lt : lt = Len(t)
  OBVIOUS
<1>1. d \in Seq(Int) /\ ld \in Nat /\ ld >= 1 /\ (\A at \in 1..ld : d[at] # Consumer!COMMA) /\ lt \in Nat
  <2>1. d \in Seq(Digit) /\ d \in Seq(Int) /\ Len(d) \in 1..2
    BY <1>0, DigitsAre DEF Numbers
  <2>2. \A at \in 1..Len(d) : d[at] \in Digit
    BY <2>1
  <2>3. Consumer!COMMA \notin Digit
    BY DEF Consumer!COMMA, Digit
  <2>4. \A at \in 1..ld : d[at] # Consumer!COMMA
    BY <1>00, <2>2, <2>3
  <2>5. lt \in Nat
    BY <1>000
  <2>6. ld \in 1..2
    BY <1>00, <2>1
  <2>7. ld \in Nat /\ ld >= 1
    BY <2>6
  <2> QED
    BY <2>1, <2>4, <2>5, <2>7
<1>2. Consumer!atoi(d) = x
  BY <1>0, AtoiIs DEF Numbers
<1>02. /\ n + 1 + ld <= lt
       /\ \A at \in 1..ld : t[n + 1 + at] = d[at]
       /\ n + 1 + ld < lt => t[n + 2 + ld] = Consumer!COMMA
  BY <1>0, <1>00, <1>000 DEF Reads
<1>3. PICK q : q = SubSeq(t, n + 2, lt)
  OBVIOUS
<1>4. q \in Seq(Int) /\ Len(q) = lt - (n + 1) /\ \A at \in 1..(lt - (n + 1)) : q[at] = t[n + 1 + at]
  <2>1. n + 1 \in Nat /\ n + 1 <= lt /\ (n + 1) + 1 = n + 2
    BY <1>1, <1>02
  <2>2. PICK low \in Nat : low = n + 1 /\ low <= lt /\ n + 2 = low + 1
    BY <2>1
  <2>3. q \in Seq(Int) /\ Len(q) = lt - low /\ \A at \in 1..(lt - low) : q[at] = t[low + at]
    <3>1. lt \in Nat /\ lt = Len(t)
      BY <1>1, <1>000
    <3> QED
      BY <1>3, <2>2, <3>1, PartFrom
  <2> QED
    BY <2>2, <2>3
<1>03. PICK lq \in Nat : lq = Len(q)
  BY <1>4
<1>04. lq = lt - (n + 1) /\ \A at \in 1..lq : q[at] = t[n + 1 + at]
  BY <1>4, <1>03
<1>5. lq >= ld /\ \A at \in 1..ld : q[at] = d[at]
  <2>1. lq >= ld
    BY <1>1, <1>02, <1>04
  <2>2. ASSUME NEW at \in 1..ld PROVE at \in 1..lq
    BY <1>1, <2>1
  <2> QED
    BY <1>02, <1>04, <2>1, <2>2
<1>6. q # <<>>
  BY <1>1, <1>03, <1>5
<1>7. PICK r : r = SubSeq(t, n + ld + 3, lt)
  OBVIOUS
<1>8. CASE lq = ld
  <2>1. q = d
    BY <1>1, <1>4, <1>5, <1>8, <1>00, <1>03, SameElements
  <2>2. Consumer!Commas(q) = {}
    BY <1>1, <1>00, <2>1 DEF Consumer!Commas
  <2>3. r = <<>>
    <3>1. n + ld + 3 > lt
      BY <1>1, <1>04, <1>8
    <3> QED
      BY <1>1, <1>7, <3>1
  <2>4. PICK s : s = [pTemp |-> q, list |-> ls]
    OBVIOUS
  <2>5. Consumer!Turn(s) = [pTemp |-> <<>>, list |-> Append(ls, x)]
    BY <1>2, <1>6, <2>1, <2>2, <2>4 DEF Consumer!Turn
  <2> QED
    BY <1>0, <1>00, <1>000, <1>3, <1>7, <2>3, <2>4, <2>5
<1>9. CASE lq > ld
  <2>1. ld + 1 \in Consumer!Commas(q) /\ \A c \in Consumer!Commas(q) : ld + 1 <= c
    <3>1. q[ld + 1] = Consumer!COMMA
      <4>2. lq = lt - (n + 1) /\ lq > ld /\ ld \in Nat /\ lt \in Nat
        BY <1>1, <1>04, <1>9
      <4>1. ld + 1 \in 1..lq /\ n + 1 + (ld + 1) = n + 2 + ld /\ n + 1 + ld < lt
        BY <4>2
      <4> QED
        BY <1>02, <1>04, <4>1
    <3>2. DOMAIN q = 1..lq
      BY <1>03, <1>4
    <3>3. ld + 1 \in Consumer!Commas(q)
      BY <1>1, <1>9, <3>1, <3>2 DEF Consumer!Commas
    <3>4. \A c \in Consumer!Commas(q) : c \in 1..lq /\ q[c] = Consumer!COMMA
      BY <3>2 DEF Consumer!Commas
    <3>5. \A c \in 1..lq : ~(ld + 1 <= c) => c \in 1..ld
      BY <1>1
    <3> QED
      BY <1>1, <1>5, <3>3, <3>4, <3>5
  <2>2. Consumer!Min(Consumer!Commas(q)) = ld + 1
    <3>1. \A c \in Consumer!Commas(q) : c \in Nat
      BY <1>03, <1>4 DEF Consumer!Commas
    <3>2. \A c \in Consumer!Commas(q) : (\A e \in Consumer!Commas(q) : c <= e) => c = ld + 1
      BY <1>1, <2>1, <3>1
    <3> QED
      BY <2>1, <3>2 DEF Consumer!Min
  <2>3. SubSeq(q, 1, ld) = d
    <3>1. PICK e : e = SubSeq(q, 1, ld)
      OBVIOUS
    <3>2. e \in Seq(Int) /\ Len(e) = ld /\ \A at \in 1..ld : e[at] = q[at]
      BY <1>1, <1>03, <1>4, <1>5, <3>1, First
    <3>3. \A at \in 1..Len(e) : e[at] = d[at]
      BY <1>5, <3>2
    <3> QED
      BY <1>00, <1>1, <3>1, <3>2, <3>3, SameElements
  <2>4. SubSeq(q, ld + 2, lq) = r
    <3>1. PICK e : e = SubSeq(q, ld + 2, lq)
      OBVIOUS
    <3>2. e \in Seq(Int) /\ Len(e) = lq - (ld + 1) /\ \A at \in 1..(lq - (ld + 1)) : e[at] = q[ld + 1 + at]
      <4>1. ld + 1 \in Nat /\ ld + 1 <= lq /\ (ld + 1) + 1 = ld + 2
        BY <1>1, <1>9
      <4>2. q \in Seq(Int)
        BY <1>4
      <4>3. PICK k \in Nat, low \in Nat : low = ld + 1 /\ k = ld + 2
        BY <1>1
      <4>4. k = low + 1 /\ low <= lq /\ e = SubSeq(q, k, lq)
        BY <3>1, <4>1, <4>3
      <4>5. e \in Seq(Int) /\ Len(e) = lq - low /\ \A at \in 1..(lq - low) : e[at] = q[low + at]
        <5>1. lq = Len(q) /\ lq \in Nat /\ low \in Nat
          BY <1>03
        <5> QED
          BY <4>2, <4>4, <5>1, PartFrom
      <4> QED
        BY <4>3, <4>5
    <3>3. r \in Seq(Int) /\ Len(r) = lt - (n + ld + 2) /\ \A at \in 1..(lt - (n + ld + 2)) : r[at] = t[n + ld + 2 + at]
      <4>1. n + ld + 2 \in Nat /\ n + ld + 2 <= lt /\ (n + ld + 2) + 1 = n + ld + 3
        BY <1>1, <1>04, <1>9
      <4>2. PICK low \in Nat : low = n + ld + 2 /\ low <= lt /\ n + ld + 3 = low + 1
        BY <4>1
      <4>3. r \in Seq(Int) /\ Len(r) = lt - low /\ \A at \in 1..(lt - low) : r[at] = t[low + at]
        <5>1. lt \in Nat /\ lt = Len(t)
          BY <1>1, <1>000
        <5>2. PICK k : k = low + 1
          OBVIOUS
        <5>3. r = SubSeq(t, k, lt)
          BY <1>7, <4>2, <5>2
        <5>4. low <= lt
          BY <4>2
        <5> QED
          BY <5>1, <5>2, <5>3, <5>4, PartFrom
      <4> QED
        BY <4>2, <4>3
    <3>4. PICK le \in Nat : le = Len(e)
      BY <3>2
    <3>5. le = lq - (ld + 1) /\ le = lt - (n + ld + 2) /\ Len(r) = le
      <4>1. le = lq - (ld + 1)
        <5>1. Len(e) = lq - (ld + 1)
          BY <3>2
        <5> QED
          BY <3>4, <5>1
      <4>2. Len(r) = lt - (n + ld + 2)
        BY <3>3
      <4>3. ld \in Nat /\ lt \in Nat
        BY <1>1
      <4>4. lq = lt - (n + 1)
        BY <1>04
      <4>5. le = lt - (n + ld + 2)
        BY <4>1, <4>3, <4>4
      <4> QED
        BY <4>1, <4>2, <4>5
    <3>6. ASSUME NEW at \in 1..le PROVE e[at] = r[at]
      <4>3. ld \in Nat /\ le = lq - (ld + 1)
        BY <1>1, <3>5
      <4>1. ld + 1 + at \in 1..lq /\ n + 1 + (ld + 1 + at) = n + ld + 2 + at
        BY <4>3
      <4>2. q[ld + 1 + at] = t[n + 1 + (ld + 1 + at)]
        BY <1>04, <4>1
      <4> QED
        BY <3>2, <3>3, <3>5, <4>1, <4>2
    <3> QED
      BY <3>1, <3>2, <3>3, <3>4, <3>5, <3>6, SameElements
  <2>5. PICK s : s = [pTemp |-> q, list |-> ls]
    OBVIOUS
  <2>6. PICK k : k = ld + 1
    OBVIOUS
  <2>7. k - 1 = ld /\ k + 1 = ld + 2 /\ Consumer!Min(Consumer!Commas(q)) = k /\ Consumer!Commas(q) # {}
    BY <1>1, <2>1, <2>2, <2>6
  <2>8. Consumer!Turn(s) = [pTemp |-> SubSeq(q, k + 1, Len(q)), list |-> Append(ls, Consumer!atoi(SubSeq(q, 1, k - 1)))]
    BY <1>6, <2>5, <2>7 DEF Consumer!Turn
  <2>9. SubSeq(q, k + 1, Len(q)) = r /\ Consumer!atoi(SubSeq(q, 1, k - 1)) = x
    BY <1>03, <1>2, <2>3, <2>4, <2>7
  <2> QED
    BY <1>0, <1>00, <1>000, <1>3, <1>7, <2>5, <2>8, <2>9
<1>10. lq = ld \/ lq > ld
  BY <1>1, <1>5
<1> QED
  BY <1>03, <1>8, <1>9, <1>10

-----------------------------------------------------------------------------
(* What Init reads from the text of a list of partitions is the list, however
   long (KafkaConsumer.cpp:92-118).                                        *)
THEOREM ReadsBack ==
    ASSUME NEW list \in Seq(Numbers), list # <<>>
    PROVE  Consumer!Partitions(Consumer!TextOf(list)) = list
<1>0. PICK N \in Nat : N = Len(list) /\ N >= 1
  <2>1. Len(list) \in Nat /\ Len(list) # 0
    OBVIOUS
  <2> QED
    BY <2>1
<1>1. PICK U : /\ Consumer!TextOf(list) = Tail(U[N]) /\ U[0] = <<>>
               /\ \A k \in 0..N : U[k] \in Seq(Int) /\ Len(U[k]) >= 2 * k
               /\ \A k \in 0..(N - 1) : U[k + 1] = U[k] \o <<Consumer!COMMA>> \o Consumer!Digits(list[k + 1])
  BY <1>0, TextIs
<1>2. PICK t : t = U[N]
  OBVIOUS
<1>3. t \in Seq(Int) /\ Len(t) \in Nat /\ Len(t) >= 2 * N
  <2>1. N \in 0..N
    BY <1>0
  <2>2. t \in Seq(Int) /\ Len(t) >= 2 * N
    BY <1>1, <1>2, <2>1
  <2> QED
    BY <2>2
(* One number and its comma.                                               *)
<1>4. ASSUME NEW k \in 0..(N - 1)
      PROVE  /\ list[k + 1] \in Numbers /\ Len(Consumer!Digits(list[k + 1])) \in Nat
             /\ Len(U[k + 1]) = Len(U[k]) + 1 + Len(Consumer!Digits(list[k + 1])) /\ Len(U[k]) \in Nat
             /\ \A at \in 1..Len(U[k]) : U[k + 1][at] = U[k][at]
             /\ U[k + 1][Len(U[k]) + 1] = Consumer!COMMA
             /\ \A at \in 1..Len(Consumer!Digits(list[k + 1])) : U[k + 1][Len(U[k]) + 1 + at] = Consumer!Digits(list[k + 1])[at]
  <2>1. PICK u : u = U[k]
    OBVIOUS
  <2>2. PICK x : x = list[k + 1]
    OBVIOUS
  <2>3. x \in Numbers
    <3>1. k + 1 \in 1..Len(list)
      BY <1>0
    <3> QED
      BY <2>2, <3>1
  <2>4. PICK d : d = Consumer!Digits(x)
    OBVIOUS
  <2>5. d \in Seq(Int)
    BY <2>3, <2>4, DigitsAre DEF Numbers
  <2>6. u \in Seq(Int)
    <3>1. k \in 0..N
      BY <1>0
    <3> QED
      BY <1>1, <2>1, <3>1
  <2>7. PICK v : v = u \o <<Consumer!COMMA>> \o d
    OBVIOUS
  <2>8. Consumer!COMMA \in Int
    BY DEF Consumer!COMMA
  <2>9. /\ Len(v) = Len(u) + 1 + Len(d) /\ Len(u) \in Nat /\ Len(d) \in Nat
        /\ \A at \in 1..Len(u) : v[at] = u[at]
        /\ v[Len(u) + 1] = Consumer!COMMA
        /\ \A at \in 1..Len(d) : v[Len(u) + 1 + at] = d[at]
    BY <2>5, <2>6, <2>7, <2>8
  <2>10. U[k + 1] = v
    BY <1>1, <2>1, <2>2, <2>4, <2>7
  <2> QED
    BY <2>1, <2>2, <2>3, <2>4, <2>9, <2>10
<1> DEFINE Begins(k) == Len(U[k]) <= Len(t) /\ \A at \in 1..Len(U[k]) : t[at] = U[k][at]
<1>5. ASSUME NEW k \in 0..N PROVE Begins(k)
  <2> DEFINE A == {low \in Nat : low <= N => Begins(N - low)}
  <2>1. 0 \in A
    <3>1. N - 0 = N
      BY <1>0
    <3>2. Len(t) \in Nat
      BY <1>3
    <3>3. Begins(N)
      BY <1>2, <3>2
    <3> QED
      BY <3>1, <3>3
  <2>2. ASSUME NEW low \in Nat, low \in A PROVE low + 1 \in A
    <3> SUFFICES ASSUME low + 1 <= N PROVE Begins(N - (low + 1))
      OBVIOUS
    <3>1. PICK j \in 0..(N - 1) : j = N - (low + 1) /\ j + 1 = N - low
      BY <1>0
    <3>2. Begins(j + 1)
      BY <1>0, <2>2, <3>1
    <3>3. Begins(j)
      <4>1. /\ Len(U[j + 1]) = Len(U[j]) + 1 + Len(Consumer!Digits(list[j + 1])) /\ Len(U[j]) \in Nat
            /\ Len(Consumer!Digits(list[j + 1])) \in Nat
            /\ \A at \in 1..Len(U[j]) : U[j + 1][at] = U[j][at]
        BY <1>4
      <4>2. PICK la \in Nat, lb \in Nat : la = Len(U[j]) /\ lb = Len(U[j + 1]) /\ la <= lb
        <5>1. PICK a \in Nat, d \in Nat : a = Len(U[j]) /\ d = Len(Consumer!Digits(list[j + 1])) /\ Len(U[j + 1]) = a + 1 + d
          BY <4>1
        <5>2. a + 1 + d \in Nat /\ a <= a + 1 + d
          OBVIOUS
        <5> QED
          BY <5>1, <5>2, Zenon
      <4>3. lb <= Len(t) /\ \A at \in 1..lb : t[at] = U[j + 1][at]
        BY <3>2, <4>2
      <4>4. la <= Len(t)
        BY <1>3, <4>2, <4>3
      <4>5. \A at \in 1..la : at \in 1..lb
        BY <4>2
      <4>6. \A at \in 1..la : t[at] = U[j][at]
        BY <4>1, <4>2, <4>3, <4>5
      <4> QED
        BY <4>2, <4>4, <4>6
    <3> QED
      BY <3>1, <3>3
  <2>3. Nat \subseteq A
    <3> HIDE DEF A
    <3> QED
      BY <2>1, <2>2, SetInduction
  <2>4. N - k \in Nat /\ N - k <= N /\ N - (N - k) = k
    BY <1>0
  <2>5. N - k <= N => Begins(N - (N - k))
    BY <2>3, <2>4
  <2> QED
    BY <2>4, <2>5
<1>6. ASSUME NEW k \in 0..(N - 1) PROVE Reads(t, Len(U[k]), Consumer!Digits(list[k + 1])) /\ Len(U[k]) \in Nat
  <2>0. k + 1 \in 0..N
    BY <1>0
  <2>1. PICK n \in Nat : n = Len(U[k])
    BY <1>4
  <2>2. PICK d : d = Consumer!Digits(list[k + 1])
    OBVIOUS
  <2>3. PICK ld \in Nat : ld = Len(d)
    BY <1>4, <2>2
  <2>4. /\ Len(U[k + 1]) = n + 1 + ld
        /\ \A at \in 1..ld : U[k + 1][n + 1 + at] = d[at]
    BY <1>4, <2>1, <2>2, <2>3
  <2>5. n + 1 + ld <= Len(t) /\ \A at \in 1..(n + 1 + ld) : t[at] = U[k + 1][at]
    BY <1>5, <2>0, <2>4
  <2>6. \A at \in 1..ld : t[n + 1 + at] = d[at]
    <3> TAKE at \in 1..ld
    <3>1. n + 1 + at \in 1..(n + 1 + ld)
      OBVIOUS
    <3> QED
      BY <2>4, <2>5, <3>1
  <2>7. ASSUME n + 1 + ld < Len(t) PROVE t[n + 2 + ld] = Consumer!COMMA
    <3>1. k + 1 # N
      BY <1>2, <1>3, <2>4, <2>7
    <3>2. k + 1 \in 0..(N - 1) /\ (k + 1) + 1 \in 0..N
      BY <1>0, <3>1
    <3>3. PICK w : w = U[(k + 1) + 1]
      OBVIOUS
    <3>4. PICK le \in Nat : le = Len(Consumer!Digits(list[(k + 1) + 1]))
      BY <1>4, <3>2
    <3>5. w[Len(U[k + 1]) + 1] = Consumer!COMMA /\ Len(w) = Len(U[k + 1]) + 1 + le
      BY <1>4, <3>2, <3>3, <3>4
    <3>6. \A at \in 1..Len(w) : t[at] = w[at]
      BY <1>5, <3>2, <3>3
    <3>7. (n + 1 + ld) + 1 = n + 2 + ld /\ n + 2 + ld \in 1..((n + 1 + ld) + 1 + le)
      OBVIOUS
    <3> QED
      BY <2>4, <3>5, <3>6, <3>7
  <2>8. Reads(t, n, d)
    BY <2>3, <2>5, <2>6, <2>7 DEF Reads
  <2> QED
    BY <2>1, <2>2, <2>8
(* After k turns.                                                          *)
<1> DEFINE W(k) == [pTemp |-> SubSeq(t, Len(U[k]) + 2, Len(t)), list |-> SubSeq(list, 1, k)]
<1>7. ASSUME NEW k \in 0..(N - 1) PROVE Consumer!Turn(W(k)) = W(k + 1)
  <2>1. PICK n \in Nat : n = Len(U[k])
    BY <1>6
  <2>2. PICK x \in Numbers : x = list[k + 1]
    BY <1>4
  <2>3. PICK ls : ls = SubSeq(list, 1, k)
    OBVIOUS
  <2>4. Reads(t, n, Consumer!Digits(x))
    BY <1>6, <2>1, <2>2
  <2>5. Consumer!Turn([pTemp |-> SubSeq(t, n + 2, Len(t)), list |-> ls])
            = [pTemp |-> SubSeq(t, n + Len(Consumer!Digits(x)) + 3, Len(t)), list |-> Append(ls, x)]
    BY <1>3, <2>4, TurnReads
  <2>6. Len(U[k + 1]) + 2 = n + Len(Consumer!Digits(x)) + 3
    <3>1. PICK ld \in Nat : ld = Len(Consumer!Digits(x)) /\ Len(U[k + 1]) = n + 1 + ld
      BY <1>4, <2>1, <2>2
    <3> QED
      BY <3>1
  <2>7. SubSeq(list, 1, k + 1) = Append(ls, x)
    <3>1. k \in Nat /\ k + 1 <= Len(list)
      BY <1>0
    <3> QED
      BY <2>2, <2>3, <3>1
  <2> QED
    BY <2>1, <2>3, <2>5, <2>6, <2>7
<1>8. PICK done : done = [pTemp |-> <<>>, list |-> list]
  OBVIOUS
<1>9. W(N) = done /\ Consumer!Turn(done) = done
  <2>1. SubSeq(t, Len(U[N]) + 2, Len(t)) = <<>>
    BY <1>2, <1>3
  <2>2. SubSeq(list, 1, N) = list
    BY <1>0
  <2>3. Consumer!Turn(done) = done
    BY <1>8 DEF Consumer!Turn
  <2> QED
    BY <1>8, <2>1, <2>2, <2>3
<1>10. PICK text : text = Tail(t)
  OBVIOUS
<1>11. PICK M \in Nat : M = Len(text) /\ M >= N
  <2>1. t # <<>>
    BY <1>0, <1>3
  <2>2. Len(Tail(t)) = Len(t) - 1
    BY <1>3, <2>1
  <2> QED
    BY <1>0, <1>3, <1>10, <2>2
<1>12. W(0) = [pTemp |-> text, list |-> <<>>]
  <2>1. PICK u : u = U[0]
    OBVIOUS
  <2>2. Len(u) + 2 = 2
    BY <1>1, <2>1
  <2>3. t # <<>>
    BY <1>0, <1>3
  <2>4. SubSeq(t, 2, Len(t)) = Tail(t)
    BY <1>3, <2>3
  <2>5. SubSeq(list, 1, 0) = <<>>
    OBVIOUS
  <2> QED
    BY <1>10, <2>1, <2>2, <2>4, <2>5
<1> HIDE DEF W, Begins
<1> DEFINE F(k) == IF k <= N THEN W(k) ELSE done
<1>13. ASSUME NEW k \in Nat PROVE Consumer!Turn(F(k)) = F(k + 1)
  <2>1. CASE k < N
    <3>1. k \in 0..(N - 1) /\ k <= N /\ k + 1 <= N
      BY <1>0, <2>1
    <3> QED
      BY <1>7, <3>1
  <2>2. CASE k >= N
    <3>1. ~(k + 1 <= N) /\ (k <= N => k = N)
      BY <1>0, <2>2
    <3>2. F(k) = done /\ F(k + 1) = done
      BY <1>9, <3>1
    <3> QED
      BY <1>9, <3>2
  <2>3. k < N \/ k >= N
    BY <1>0
  <2> QED
    BY <2>1, <2>2, <2>3
<1>14. F(0) = [pTemp |-> text, list |-> <<>>] /\ F(M) = done
  <2>1. 0 <= N /\ (M <= N => M = N)
    BY <1>0, <1>11
  <2> QED
    BY <1>9, <1>12, <2>1
<1> HIDE DEF F
<1> DEFINE Is(f) == f = [n \in 0..M |-> IF n = 0 THEN [pTemp |-> text, list |-> <<>>] ELSE Consumer!Turn(f[n - 1])]
<1>15. Consumer!Partitions(text) = (CHOOSE f : Is(f))[M].list
  BY <1>11 DEF Consumer!Partitions
<1>16. \E f : Is(f)
  <2> DEFINE g == [n \in 0..M |-> F(n)]
  <2>1. ASSUME NEW n \in 0..M PROVE g[n] = IF n = 0 THEN [pTemp |-> text, list |-> <<>>] ELSE Consumer!Turn(g[n - 1])
    <3>1. CASE n = 0
      BY <1>14, <3>1
    <3>2. CASE n # 0
      <4>1. n - 1 \in Nat /\ n - 1 \in 0..M /\ (n - 1) + 1 = n
        BY <1>11, <3>2
      <4>2. g[n] = F(n) /\ g[n - 1] = F(n - 1)
        BY <4>1
      <4>3. Consumer!Turn(F(n - 1)) = F(n)
        BY <1>13, <4>1
      <4> QED
        BY <3>2, <4>2, <4>3
    <3> QED
      BY <3>1, <3>2
  <2>2. g = [n \in 0..M |-> g[n]]
    OBVIOUS
  <2> HIDE DEF g
  <2>3. Is(g)
    BY <2>1, <2>2
  <2> QED
    BY <2>3
<1>17. PICK f : f = (CHOOSE h : Is(h)) /\ Is(f)
  BY <1>16
<1>18. \A n \in 0..M : f[n] = IF n = 0 THEN [pTemp |-> text, list |-> <<>>] ELSE Consumer!Turn(f[n - 1])
  <2>1. PICK h : h = [n \in 0..M |-> IF n = 0 THEN [pTemp |-> text, list |-> <<>>] ELSE Consumer!Turn(f[n - 1])] /\ h = f
    BY <1>17
  <2> QED
    BY <2>1
<1> HIDE DEF Is
<1> DEFINE A == {n \in Nat : n <= M => f[n] = F(n)}
<1>19. 0 \in A
  <2>1. 0 \in 0..M
    BY <1>11
  <2> QED
    BY <1>14, <1>18, <2>1
<1>20. ASSUME NEW n \in Nat, n \in A PROVE n + 1 \in A
  <2> SUFFICES ASSUME n + 1 <= M PROVE f[n + 1] = F(n + 1)
    OBVIOUS
  <2>1. n + 1 \in 0..M /\ n + 1 # 0 /\ (n + 1) - 1 = n /\ n <= M
    BY <1>11
  <2>2. f[n + 1] = Consumer!Turn(f[n]) /\ f[n] = F(n)
    BY <1>18, <1>20, <2>1
  <2> QED
    BY <1>13, <2>2
<1>21. f[M] = done
  <2>1. Nat \subseteq A
    <3> HIDE DEF A
    <3> QED
      BY <1>19, <1>20, SetInduction
  <2>2. f[M] = F(M)
    BY <1>11, <2>1
  <2> QED
    BY <1>14, <2>2
<1>22. f[M].list = list
  BY <1>8, <1>21
<1> QED
  BY <1>1, <1>2, <1>10, <1>15, <1>17, <1>22

-----------------------------------------------------------------------------
(* What StartStopsAll is about: Start stops 0, 1 and so on, so all there is
   when the values are those (KafkaConsumer.cpp:218-224).                  *)
Values == {wanted[k] : k \in DOMAIN wanted}
Canonical == Values = 0..(Len(wanted) - 1)

(* The list is what was asked for once there is one, and what is consumed is
   what the loops of Start have begun and not yet stopped.                  *)
ListInv ==
    /\ wanted \in PartitionLists /\ created \subseteq Consumer!Members
    /\ elems = IF "list" \in created THEN wanted ELSE <<>>
    /\ m_bRun \in BOOLEAN /\ usable \in BOOLEAN
    /\ pc \in Consumer!AtRest \cup Consumer!InStart \cup {"gone", "exited", "crashed"}
    /\ ret \in {0, -1, -2} /\ calls \in 0..ConsumerCalls
    /\ usable = TRUE => Consumer!Members \subseteq created /\ pc # "crashed"
TurnInv ==
    /\ i \in 0..(Len(elems) + 1)
    /\ pc = "new" => i = 0 /\ consuming = {}
    /\ pc \in {"starting", "loop", "poll", "stopping"} => "list" \in created
    /\ consuming \subseteq Values
    /\ pc = "starting" => i >= 1 /\ \A k \in 1..(i - 1) : wanted[k] \in consuming
    /\ pc \in {"loop", "poll"} => \A k \in 1..Len(wanted) : wanted[k] \in consuming
    /\ pc = "stopping" => i <= Len(wanted) /\ (Canonical => \A x \in consuming : x >= i)
    /\ pc = "idle" /\ ret = 0 /\ Canonical => consuming = {}

LEMMA WantedIs ==
    ASSUME Consumer!Lists, wanted \in PartitionLists
    PROVE  /\ wanted \in Seq(Numbers) /\ wanted # <<>> /\ Len(wanted) \in Nat /\ Len(wanted) >= 1
           /\ DOMAIN wanted = 1..Len(wanted)
           /\ Consumer!Partitions(Consumer!TextOf(wanted)) = wanted
<1>1. wanted \in Seq(Numbers) /\ wanted # <<>>
  BY DEF Consumer!Lists, Numbers
<1>2. Len(wanted) \in Nat /\ Len(wanted) >= 1 /\ DOMAIN wanted = 1..Len(wanted)
  BY <1>1
<1>3. Consumer!Partitions(Consumer!TextOf(wanted)) = wanted
  <2>1. \A l \in Seq(Numbers) : l # <<>> => Consumer!Partitions(Consumer!TextOf(l)) = l
    <3> TAKE l \in Seq(Numbers)
    <3> HAVE l # <<>>
    <3> QED
      BY ReadsBack
  <2> QED
    BY <1>1, <2>1
<1> QED
  BY <1>1, <1>2, <1>3

LEMMA ConsumerInit == ASSUME Consumer!Lists, ConsumerCalls \in Nat, Consumer!Init PROVE ListInv /\ TurnInv
<1>1. /\ wanted \in PartitionLists /\ created = {} /\ elems = <<>> /\ m_bRun \in BOOLEAN /\ pc = "new"
      /\ i = 0 /\ ret = 0 /\ usable = FALSE /\ calls = 0 /\ consuming = {}
  BY DEF Consumer!Init
<1>2. ListInv
  <2>1. usable \in BOOLEAN /\ ~(usable = TRUE)
    BY <1>1
  <2>2. calls \in 0..ConsumerCalls /\ "list" \notin created /\ created \subseteq Consumer!Members
    BY <1>1
  <2>3. pc \in Consumer!AtRest \cup Consumer!InStart \cup {"gone", "exited", "crashed"}
    BY <1>1 DEF Consumer!AtRest
  <2> QED
    BY <1>1, <2>1, <2>2, <2>3 DEF ListInv
<1>3. Len(elems) = 0
  BY <1>1
<1> QED
  BY <1>1, <1>2, <1>3 DEF TurnInv

LEMMA ListStep == ASSUME Consumer!Lists, ConsumerCalls \in Nat, ListInv, [Consumer!Next]_Consumer!vars PROVE ListInv'
<1> USE DEF ListInv
<1>1. ASSUME NEW failure, Consumer!InitCall(failure) PROVE ListInv'
  <2>1. /\ pc = "new" /\ calls < ConsumerCalls /\ usable = FALSE /\ Consumer!InitOutcome(failure)
        /\ elems' = IF failure \in {"conf", "topicConf"} THEN elems ELSE Consumer!Partitions(Consumer!TextOf(wanted))
        /\ usable' = (ret' = 0 /\ "topic" \in created')
        /\ calls' = calls + 1 /\ UNCHANGED <<wanted, m_bRun, pc>>
    BY <1>1 DEF Consumer!InitCall
  <2>2. created' \subseteq Consumer!Members /\ ret' \in {0, -1, -2} /\ usable' \in BOOLEAN
    BY <2>1 DEF Consumer!InitOutcome, Consumer!Members
  <2>3. usable' = TRUE => Consumer!Members \subseteq created'
    BY <2>1 DEF Consumer!InitOutcome, Consumer!Members
  <2>4. elems' = IF "list" \in created' THEN wanted ELSE <<>>
    BY <2>1, WantedIs DEF Consumer!InitOutcome, Consumer!Members
  <2>5. calls' \in 0..ConsumerCalls
    BY <2>1
  <2> QED
    BY <2>1, <2>2, <2>3, <2>4, <2>5
<1>2. CASE Consumer!StartCall
  BY <1>2 DEF Consumer!StartCall, Consumer!AtRest, Consumer!InStart
<1>3. CASE Consumer!StartRun
  BY <1>3 DEF Consumer!StartRun, Consumer!AtRest, Consumer!InStart, Consumer!Members
<1>4. CASE Consumer!StartPartition
  BY <1>4 DEF Consumer!StartPartition, Consumer!AtRest, Consumer!InStart, Consumer!Members
<1>5. CASE Consumer!EnterLoop \/ Consumer!Loop \/ Consumer!Poll \/ Consumer!StopPartition
  BY <1>5 DEF Consumer!EnterLoop, Consumer!Loop, Consumer!Poll, Consumer!StopPartition, Consumer!AtRest,
     Consumer!InStart
<1>6. CASE Consumer!Stop \/ Consumer!sig_stop \/ UNCHANGED Consumer!vars
  BY <1>6 DEF Consumer!Stop, Consumer!sig_stop, Consumer!vars, Consumer!AtRest, Consumer!InStart
<1>7. CASE Consumer!Destroy
  BY <1>7 DEF Consumer!Destroy, Consumer!AtRest, Consumer!InStart, Consumer!Members
<1> QED
  BY <1>1, <1>2, <1>3, <1>4, <1>5, <1>6, <1>7 DEF Consumer!Next, Consumer!StartSteps

LEMMA TurnStep == ASSUME Consumer!Lists, ConsumerCalls \in Nat, ListInv, TurnInv, [Consumer!Next]_Consumer!vars PROVE TurnInv'
<1>0. PICK N \in Nat : /\ N = Len(wanted) /\ N >= 1 /\ DOMAIN wanted = 1..N
                      /\ Consumer!Partitions(Consumer!TextOf(wanted)) = wanted
  BY WantedIs DEF ListInv
<1>00. elems = (IF "list" \in created THEN wanted ELSE <<>>) /\ Len(<<>>) = 0
  BY DEF ListInv
<1> USE DEF TurnInv
<1>1. ASSUME NEW failure, Consumer!InitCall(failure) PROVE TurnInv'
  <2>1. pc = "new" /\ UNCHANGED <<wanted, pc, i, consuming>> /\ consuming = {} /\ i = 0
    BY <1>1 DEF Consumer!InitCall
  <2>2. elems' = wanted \/ elems' = elems
    BY <1>0, <1>1 DEF Consumer!InitCall
  <2>3. Len(elems') \in Nat
    BY <1>0, <1>00, <2>2
  <2>4. i' \in 0..(Len(elems') + 1)
    BY <2>1, <2>3
  <2> QED
    BY <2>1, <2>4
<1>2. CASE Consumer!StartCall
  <2>1. pc' = "called" /\ UNCHANGED <<wanted, created, elems, i, ret, consuming>>
    BY <1>2 DEF Consumer!StartCall
  <2> QED
    BY <2>1 DEF Values
<1>3. CASE Consumer!StartRun
  <2>1. /\ pc' = (IF "list" \in created THEN "starting" ELSE "crashed") /\ i' = 1
        /\ UNCHANGED <<wanted, created, elems, ret, consuming>>
    BY <1>3 DEF Consumer!StartRun
  <2>2. i' \in 0..(Len(elems') + 1)
    BY <1>0, <1>00, <2>1
  <2>3. \A k \in 1..(i' - 1) : FALSE
    BY <2>1
  <2> QED
    BY <2>1, <2>2, <2>3 DEF Values
<1>4. CASE Consumer!StartPartition
  <2>1. /\ pc = "starting" /\ i <= Len(elems) /\ UNCHANGED <<wanted, created, elems>> /\ elems = wanted
        /\ i \in 1..N
    BY <1>0, <1>00, <1>4 DEF Consumer!StartPartition
  <2>2. CASE consuming' = consuming \cup {elems[i]} /\ i' = i + 1 /\ pc' = pc /\ ret' = ret
    <3>1. wanted[i] \in Values
      BY <1>0, <2>1 DEF Values
    <3>2. consuming' \subseteq Values' /\ Values' = Values
      BY <2>1, <2>2, <3>1 DEF Values
    <3>3. i' \in 0..(N + 1) /\ i' >= 1 /\ \A k \in 1..(i' - 1) : k = i \/ k \in 1..(i - 1)
      BY <2>1, <2>2
    <3>4. \A k \in 1..(i' - 1) : wanted'[k] \in consuming'
      BY <2>1, <2>2, <3>3
    <3> QED
      BY <1>0, <2>1, <2>2, <3>2, <3>3, <3>4
  <2>3. CASE consuming' = consuming /\ i' = i /\ ((pc' = "idle" /\ ret' = -1) \/ pc' = "crashed")
    BY <2>1, <2>3 DEF Values
  <2> QED
    BY <1>4, <2>2, <2>3 DEF Consumer!StartPartition
<1>5. CASE Consumer!EnterLoop
  <2>1. /\ pc = "starting" /\ i > Len(elems) /\ UNCHANGED <<wanted, created, elems, i, ret, consuming>> /\ pc' = "loop"
    BY <1>5 DEF Consumer!EnterLoop
  <2>2. elems = wanted /\ i - 1 >= N
    BY <1>0, <1>00, <2>1
  <2>3. \A k \in 1..N : wanted[k] \in consuming
    BY <2>1, <2>2
  <2> QED
    BY <1>0, <2>1, <2>3 DEF Values
<1>6. CASE Consumer!Loop
  <2>1. /\ pc = "loop" /\ UNCHANGED <<wanted, created, elems, ret, consuming>> /\ "list" \in created
        /\ \/ pc' = "poll" /\ i' = i
           \/ pc' = "stopping" /\ i' = 0
    BY <1>6 DEF Consumer!Loop
  <2>2. elems = wanted /\ 0 \in 0..(Len(wanted) + 1) /\ 0 <= Len(wanted)
    BY <1>0, <1>00, <2>1
  <2>3. Canonical => \A x \in consuming : x >= 0
    BY <1>0 DEF Canonical
  <2> QED
    BY <2>1, <2>2, <2>3 DEF Values, Canonical
<1>7. CASE Consumer!Poll
  <2>1. pc = "poll" /\ pc' = "loop" /\ UNCHANGED <<wanted, created, elems, i, ret, consuming>>
    BY <1>7 DEF Consumer!Poll
  <2> QED
    BY <2>1 DEF Values
<1>8. CASE Consumer!StopPartition
  <2>1. /\ pc = "stopping" /\ UNCHANGED <<wanted, created, elems>> /\ elems = wanted /\ i \in 0..N
        /\ (Canonical => \A x \in consuming : x >= i)
    BY <1>0, <1>00, <1>8 DEF Consumer!StopPartition
  <2>2. CASE i < N /\ consuming' = consuming \ {i} /\ i' = i + 1 /\ pc' = pc /\ ret' = ret
    <3>1. consuming' \subseteq Values' /\ (Canonical' <=> Canonical)
      BY <2>1, <2>2 DEF Values, Canonical
    <3>2. ASSUME Canonical, NEW x \in consuming' PROVE x >= i'
      <4>1. x \in 0..(N - 1) /\ x >= i /\ x # i
        BY <1>0, <2>1, <2>2, <3>2 DEF Canonical
      <4> QED
        BY <2>1, <2>2, <4>1
    <3>3. i' \in 0..(N + 1) /\ i' <= N
      BY <2>1, <2>2
    <3> QED
      BY <1>0, <2>1, <2>2, <3>1, <3>2, <3>3
  <2>3. CASE i >= N /\ consuming' = consuming /\ i' = i /\ pc' = "idle" /\ ret' = 0
    <3>1. consuming' \subseteq Values' /\ (Canonical' <=> Canonical)
      BY <2>1, <2>3 DEF Values, Canonical
    <3>2. Canonical => consuming = {}
      <4>1. ASSUME Canonical, NEW x \in consuming PROVE FALSE
        <5>1. x \in 0..(N - 1) /\ x >= i
          BY <1>0, <2>1, <4>1 DEF Canonical
        <5> QED
          BY <2>1, <2>3, <5>1
      <4> QED
        BY <4>1
    <3> QED
      BY <2>1, <2>3, <3>1, <3>2
  <2> QED
    BY <1>0, <1>8, <2>1, <2>2, <2>3 DEF Consumer!StopPartition
<1>9. CASE Consumer!Stop \/ UNCHANGED Consumer!vars
  <2>1. UNCHANGED <<wanted, created, elems, pc, i, ret, consuming>>
    BY <1>9 DEF Consumer!Stop, Consumer!vars
  <2> QED
    BY <2>1 DEF Values, Canonical
<1>10. CASE Consumer!sig_stop
  <2>1. pc' = "exited" /\ UNCHANGED <<wanted, created, elems, i, ret, consuming>>
    BY <1>10 DEF Consumer!sig_stop
  <2> QED
    BY <2>1 DEF Values
<1>11. CASE Consumer!Destroy
  <2>1. pc' \in {"gone", "crashed"} /\ UNCHANGED <<wanted, created, elems, i, ret>> /\ consuming' \in {{}, consuming}
    BY <1>11 DEF Consumer!Destroy
  <2> QED
    BY <2>1 DEF Values
<1> HIDE DEF TurnInv
<1> QED
  BY <1>1, <1>2, <1>3, <1>4, <1>5, <1>6, <1>7, <1>8, <1>9, <1>10, <1>11 DEF Consumer!Next, Consumer!StartSteps

LEMMA ConsumerRight ==
    ASSUME Consumer!Lists, ListInv, TurnInv
    PROVE  Consumer!TypeOK /\ Consumer!UsableNeverCrashes /\ Consumer!LoopServesAll /\ Consumer!StartStopsAll
<1>1. DOMAIN wanted = 1..Len(wanted)
  BY WantedIs DEF ListInv
<1>2. elems \in {<<>>} \cup PartitionLists
  BY DEF ListInv
<1>3. Consumer!TypeOK
  BY <1>2 DEF Consumer!TypeOK, ListInv, TurnInv, Values
<1>4. Consumer!UsableNeverCrashes
  BY DEF Consumer!UsableNeverCrashes, ListInv
<1>5. Consumer!LoopServesAll
  BY <1>1 DEF Consumer!LoopServesAll, TurnInv
<1>6. Consumer!StartStopsAll
  BY DEF Consumer!StartStopsAll, TurnInv, Canonical, Values
<1> QED
  BY <1>3, <1>4, <1>5, <1>6

(* CKafkaConsumer: the loop of Start consumes what was asked for, and a Start
   that returns 0 has stopped it (KafkaConsumer.cpp:82-231).               *)
THEOREM ConsumerSafe ==
    ASSUME Consumer!Lists, ConsumerCalls \in Nat
    PROVE  Consumer!Spec => [](Consumer!TypeOK /\ Consumer!UsableNeverCrashes /\ Consumer!LoopServesAll /\ Consumer!StartStopsAll)
<1>1. Consumer!Init => ListInv /\ TurnInv
  BY ConsumerInit
<1>2. ListInv /\ TurnInv /\ [Consumer!Next]_Consumer!vars => (ListInv /\ TurnInv)'
  BY ListStep, TurnStep
<1>3. ListInv /\ TurnInv => Consumer!TypeOK /\ Consumer!UsableNeverCrashes /\ Consumer!LoopServesAll /\ Consumer!StartStopsAll
  BY ConsumerRight
<1> QED
  BY <1>1, <1>2, <1>3, PTL DEF Consumer!Spec

-----------------------------------------------------------------------------
(* A buffer is unsent, with librdkafka, with the caller whose Send was
   refused, or has been freed once; a queue holds none twice.              *)
Left == pc = "returned" /\ ret /= 0
OneQueued == \A j, k \in 1..Len(queue) : queue[j] = queue[k] => j = k
Queued(x) == \E k \in 1..Len(queue) : queue[k] = x
BuffersInv ==
    /\ queue \in Seq(Msg) /\ Len(queue) <= MaxQueue /\ OneQueued
    /\ unsent \subseteq Msg
    /\ frees \in [Msg -> 0..1]
    /\ \A x \in unsent : frees[x] = 0 /\ ~Queued(x)
    /\ \A x \in Msg : Queued(x) => frees[x] = 0
    /\ pc = "returned" => m \in Msg \ unsent
    /\ Left => frees[m] = 0 /\ ~Queued(m)
    /\ pc /= "crashed" =>
          \A x \in Msg \ unsent : frees[x] = 1 \/ Queued(x) \/ (Left /\ x = m)
    /\ pc = "gone" => queue = <<>>

(* After an Init that succeeded all that is used is there.                 *)
ObjectsInv ==
    /\ created \subseteq Producer!Members /\ usable \in BOOLEAN /\ inits \in 0..MaxInits
    /\ pc \in {"idle", "returned", "flush", "gone", "crashed"}
    /\ m \in Msg \cup {NoMsg} /\ ret \in {0, -1, -2}
    /\ usable = TRUE => Producer!Members \subseteq created /\ pc /= "crashed"

LEMMA ProducerInit == ASSUME Producer!Queue, MaxInits \in Nat PROVE Producer!Init => BuffersInv /\ ObjectsInv
<1> SUFFICES ASSUME Producer!Init PROVE BuffersInv /\ ObjectsInv
  OBVIOUS
<1>1. queue = <<>> /\ Len(queue) = 0 /\ queue \in Seq(Msg) /\ \A x : ~Queued(x)
  BY DEF Producer!Init, Queued
<1>2. frees \in [Msg -> 0..1] /\ \A x \in Msg : frees[x] = 0
  BY DEF Producer!Init
<1>3. OneQueued
  BY <1>1 DEF OneQueued
<1>4. BuffersInv
  BY <1>1, <1>2, <1>3 DEF Producer!Init, BuffersInv, Left, Producer!Queue
<1>5. 0 \in 0..MaxInits /\ created = {} /\ pc = "idle" /\ m = NoMsg /\ ret = 0 /\ usable = FALSE /\ inits = 0
  BY DEF Producer!Init
<1>6. usable \in BOOLEAN /\ ~(usable = TRUE)
  BY <1>5
<1>7. ObjectsInv
  BY <1>5, <1>6 DEF ObjectsInv
<1> QED
  BY <1>4, <1>7

LEMMA ObjectsStep == ASSUME MaxInits \in Nat, ObjectsInv, [Producer!Next]_Producer!vars PROVE ObjectsInv'
<1> USE DEF ObjectsInv, Producer!Members
<1>1. ASSUME NEW failure, Producer!InitCall(failure) PROVE ObjectsInv'
  <2>1. pc = "idle" /\ inits < MaxInits /\ inits' = inits + 1 /\ UNCHANGED <<pc, m>> /\ Producer!InitOutcome(failure)
    BY <1>1 DEF Producer!InitCall
  <2>2. created' \subseteq Producer!Members /\ ret' \in {0, -1, -2} /\ usable' \in BOOLEAN
    BY <2>1 DEF Producer!InitOutcome
  <2>3. usable' = TRUE => Producer!Members \subseteq created'
    BY <2>1 DEF Producer!InitOutcome
  <2> QED
    BY <2>1, <2>2, <2>3
<1>2. ASSUME NEW x \in Msg, Producer!Send(x) PROVE ObjectsInv'
  BY <1>2 DEF Producer!Send, Producer!SendOutcome
<1>3. CASE Producer!GoOn \/ Producer!Delivered \/ Producer!Flush \/ Producer!Destroy \/ UNCHANGED Producer!vars
  BY <1>3 DEF Producer!GoOn, Producer!Delivered, Producer!Flush, Producer!Destroy, Producer!vars
<1> QED
  BY <1>1, <1>2, <1>3 DEF Producer!Next

LEMMA BuffersStep ==
    ASSUME Producer!Owned, Producer!Queue, ObjectsInv, BuffersInv, [Producer!Next]_Producer!vars
    PROVE  BuffersInv'
<1> USE DEF BuffersInv
<1>1. ASSUME NEW failure, Producer!InitCall(failure) PROVE BuffersInv'
  BY <1>1 DEF Producer!InitCall, OneQueued, Queued, Left
<1>2. ASSUME NEW x \in Msg, Producer!Send(x) PROVE BuffersInv'
  <2>1. pc = "idle" /\ x \in unsent /\ m' = x /\ unsent' = unsent \ {x} /\ frees' = frees
    BY <1>2 DEF Producer!Send, Producer!SendOutcome
  <2>2. CASE pc' = "returned" /\ Len(queue) < MaxQueue /\ queue' = Append(queue, x) /\ ret' = 0
    <3>1. /\ queue' \in Seq(Msg) /\ Len(queue') = Len(queue) + 1 /\ queue'[Len(queue) + 1] = x
          /\ \A k \in 1..Len(queue) : queue'[k] = queue[k]
      BY <2>2
    <3>2. Len(queue) \in Nat /\ MaxQueue \in Nat
      BY DEF Producer!Queue
    <3>3. \A y : Queued(y)' <=> Queued(y) \/ y = x
      <4> TAKE y
      <4>1. ASSUME Queued(y) \/ y = x PROVE Queued(y)'
        BY <3>1, <3>2, <4>1 DEF Queued
      <4>2. ASSUME Queued(y)' PROVE Queued(y) \/ y = x
        <5>1. PICK k \in 1..Len(queue') : queue'[k] = y
          BY <4>2 DEF Queued
        <5>2. k = Len(queue) + 1 \/ k \in 1..Len(queue)
          BY <3>1, <3>2
        <5> QED
          BY <3>1, <5>1, <5>2 DEF Queued
      <4> QED
        BY <4>1, <4>2
    <3>4. OneQueued'
      <4>1. ~Queued(x)
        BY <2>1
      <4>2. \A k \in 1..Len(queue') : k = Len(queue) + 1 \/ k \in 1..Len(queue)
        BY <3>1, <3>2
      <4> QED
        BY <3>1, <3>2, <4>1, <4>2 DEF OneQueued, Queued
    <3>5. ~Left' /\ ~Left /\ pc /= "crashed" /\ pc' = "returned"
      BY <2>1, <2>2 DEF Left
    <3> HIDE DEF BuffersInv
    <3>6. /\ \A y \in unsent' : frees'[y] = 0 /\ ~Queued(y)'
          /\ \A y \in Msg : Queued(y)' => frees'[y] = 0
          /\ \A y \in Msg \ unsent' : frees'[y] = 1 \/ Queued(y)'
      BY <2>1, <3>3, <3>5 DEF BuffersInv
    <3>7. Len(queue') <= MaxQueue /\ frees' \in [Msg -> 0..1] /\ unsent' \subseteq Msg
      BY <2>1, <2>2, <3>1, <3>2 DEF BuffersInv
    <3> QED
      BY <2>1, <3>1, <3>4, <3>5, <3>6, <3>7 DEF BuffersInv
  <2>3. CASE queue' = queue /\ ((pc' = "returned" /\ ret' = -2) \/ pc' = "crashed")
    BY <2>1, <2>3 DEF Queued, OneQueued, Left
  <2> QED
    BY <1>2, <2>2, <2>3 DEF Producer!Send, Producer!SendOutcome
<1>3. CASE Producer!GoOn
  BY <1>3 DEF Producer!GoOn, Queued, OneQueued, Left
<1>4. CASE Producer!Delivered
  <2>1. /\ pc /= "crashed" /\ queue /= <<>> /\ queue' = Tail(queue)
        /\ frees' = [frees EXCEPT ![Head(queue)] = @ + 1] /\ UNCHANGED <<pc, m, ret, unsent>>
    BY <1>4 DEF Producer!Delivered
  <2>2. /\ Len(queue) \in Nat /\ Len(queue) > 0 /\ Head(queue) = queue[1] /\ Head(queue) \in Msg
        /\ Tail(queue) \in Seq(Msg) /\ Len(Tail(queue)) = Len(queue) - 1
        /\ \A k \in 1..(Len(queue) - 1) : Tail(queue)[k] = queue[k + 1]
    BY <2>1
  <2>3. \A y : Queued(y)' <=> Queued(y) /\ y /= Head(queue)
    <3> TAKE y
    <3>1. ASSUME Queued(y)' PROVE Queued(y) /\ y /= Head(queue)
      <4>1. PICK k \in 1..(Len(queue) - 1) : Tail(queue)[k] = y
        BY <2>1, <2>2, <3>1 DEF Queued
      <4>2. queue[k + 1] = y /\ k + 1 \in 1..Len(queue) /\ 1 \in 1..Len(queue) /\ k + 1 /= 1
        BY <2>2, <4>1
      <4> QED
        BY <2>2, <4>2 DEF Queued, OneQueued
    <3>2. ASSUME Queued(y), y /= Head(queue) PROVE Queued(y)'
      <4>1. PICK k \in 1..Len(queue) : queue[k] = y
        BY <3>2 DEF Queued
      <4>2. k /= 1 /\ k - 1 \in 1..(Len(queue) - 1) /\ (k - 1) + 1 = k
        BY <2>2, <3>2, <4>1
      <4>3. Tail(queue)[k - 1] = y
        BY <2>2, <4>1, <4>2
      <4> QED
        BY <2>1, <2>2, <4>2, <4>3 DEF Queued
    <3> QED
      BY <3>1, <3>2
  <2>4. OneQueued'
    <3> SUFFICES ASSUME NEW j \in 1..(Len(queue) - 1), NEW k \in 1..(Len(queue) - 1), Tail(queue)[j] = Tail(queue)[k]
                 PROVE  j = k
      BY <2>1, <2>2 DEF OneQueued
    <3>1. queue[j + 1] = queue[k + 1] /\ j + 1 \in 1..Len(queue) /\ k + 1 \in 1..Len(queue)
      BY <2>2
    <3>2. j + 1 = k + 1
      BY <3>1 DEF OneQueued
    <3> QED
      BY <3>2
  <2>5. Queued(Head(queue)) /\ frees[Head(queue)] = 0
    BY <2>2 DEF Queued
  <2>6. /\ frees' \in [Msg -> 0..1] /\ frees'[Head(queue)] = 1
        /\ \A y \in Msg : y /= Head(queue) => frees'[y] = frees[y]
    BY <2>1, <2>2, <2>5
  <2>7. (Left => ~Queued(m)) /\ \A y \in unsent : ~Queued(y)
    OBVIOUS
  <2>8. Left' <=> Left
    BY <2>1 DEF Left
  <2>9. Len(queue') <= MaxQueue /\ queue' \in Seq(Msg)
    BY <2>1, <2>2 DEF Producer!Queue
  <2>10. pc = "gone" => FALSE
    BY <2>1
  <2> HIDE DEF BuffersInv
  <2>11. /\ \A y \in unsent' : frees'[y] = 0 /\ ~Queued(y)'
         /\ \A y \in Msg : Queued(y)' => frees'[y] = 0
         /\ \A y \in Msg \ unsent' : frees'[y] = 1 \/ Queued(y)' \/ (Left' /\ y = m')
         /\ Left' => frees'[m'] = 0 /\ ~Queued(m)'
    BY <2>1, <2>3, <2>5, <2>6, <2>7, <2>8 DEF BuffersInv, Left
  <2> QED
    BY <2>1, <2>4, <2>6, <2>8, <2>9, <2>10, <2>11 DEF BuffersInv
<1>5. CASE Producer!Flush
  BY <1>5 DEF Producer!Flush, Queued, OneQueued, Left
<1>6. CASE Producer!Destroy
  <2>1. /\ pc = "flush" /\ pc' \in {"gone", "crashed"} /\ queue' = <<>> /\ UNCHANGED <<m, ret, unsent>>
        /\ frees' = [x \in Msg |-> IF x \in Producer!Range(queue) THEN frees[x] + 1 ELSE frees[x]]
    BY <1>6 DEF Producer!Destroy
  <2>2. \A x : x \in Producer!Range(queue) <=> Queued(x)
    BY DEF Producer!Range, Queued
  <2>3. (\A y : ~Queued(y)') /\ OneQueued'
    BY <2>1 DEF Queued, OneQueued
  <2>4. \A x \in Msg : frees'[x] = IF Queued(x) THEN 1 ELSE frees[x]
    BY <2>1, <2>2
  <2>5. frees' \in [Msg -> 0..1]
    BY <2>1, <2>2
  <2> QED
    BY <2>1, <2>3, <2>4, <2>5 DEF Left, Producer!Queue
<1>7. CASE UNCHANGED Producer!vars
  BY <1>7 DEF Producer!vars, Queued, OneQueued, Left
<1> QED
  BY <1>1, <1>2, <1>3, <1>4, <1>5, <1>6, <1>7 DEF Producer!Next

LEMMA ProducerRight ==
    ASSUME BuffersInv, ObjectsInv
    PROVE  Producer!TypeOK /\ Producer!UsableNeverCrashes /\ Producer!FreedOnce /\ Producer!AllReleased
<1>1. queue \in Seq(Msg \ unsent)
  <2>1. \A k \in 1..Len(queue) : queue[k] \in Msg \ unsent
    BY DEF BuffersInv, Queued
  <2> QED
    BY <2>1 DEF BuffersInv
<1>2. Producer!TypeOK
  BY <1>1 DEF Producer!TypeOK, BuffersInv, ObjectsInv
<1>3. Producer!AllReleased
  BY DEF Producer!AllReleased, BuffersInv, Queued, Left
<1>4. Producer!FreedOnce
  BY DEF Producer!FreedOnce, BuffersInv
<1>5. Producer!UsableNeverCrashes
  BY DEF Producer!UsableNeverCrashes, ObjectsInv
<1> QED
  BY <1>2, <1>3, <1>4, <1>5

(* CKafkaProducer: a buffer is freed once and never lost
   (KafkaProducer.cpp:125-176).                                            *)
THEOREM ProducerSafe ==
    ASSUME Producer!Owned, Producer!Queue, MaxInits \in Nat
    PROVE  Producer!Spec => [](Producer!TypeOK /\ Producer!UsableNeverCrashes /\ Producer!FreedOnce /\ Producer!AllReleased)
<1>1. Producer!Init => BuffersInv /\ ObjectsInv
  BY ProducerInit
<1>2. BuffersInv /\ ObjectsInv /\ [Producer!Next]_Producer!vars => (BuffersInv /\ ObjectsInv)'
  BY ObjectsStep, BuffersStep
<1>3. BuffersInv /\ ObjectsInv => Producer!TypeOK /\ Producer!UsableNeverCrashes /\ Producer!FreedOnce /\ Producer!AllReleased
  BY ProducerRight
<1> QED
  BY <1>1, <1>2, <1>3, PTL DEF Producer!Spec

-----------------------------------------------------------------------------
(* CHttpClient.  A piece of a body has the number of its call and its own. *)
Pieces == Nat \X Nat

(* Behind what the string held there are k pieces of this call's body, and
   the handle is that of the call.                                         *)
Behind(k) == strResponse = before \o Http!Body(k)
CallInv ==
    /\ pc \in {"idle", "init", "setopt", "perform"} /\ calls \in Nat /\ length \in Nat
    /\ before \in Seq(Pieces)
    /\ \E k \in 0..length : Behind(k)
    /\ pc \in {"init", "setopt"} => Behind(0)
    /\ pc = "idle" /\ ret = Http!CURLE_OK => Behind(length)
OptionsInv ==
    /\ pc = "idle" => curl = NULL
    /\ pc \in {"init", "setopt", "perform"} => (call.https => call.method \in {"Gets", "Posts"})
    /\ pc = "perform" => curl = Http!Options

LEMMA BodyIsSeq == ASSUME calls \in Nat PROVE \A k \in Nat : Http!Body(k) \in Seq(Pieces) /\ Len(Http!Body(k)) = k
BY DEF Http!Body, Pieces

LEMMA BodyGrows == ASSUME calls \in Nat, NEW k \in Nat PROVE Http!Body(k + 1) = Append(Http!Body(k), <<calls, k + 1>>)
BY DEF Http!Body

LEMMA CallInit == Http!Init => CallInv /\ OptionsInv
<1> SUFFICES ASSUME Http!Init PROVE CallInv /\ OptionsInv
  OBVIOUS
<1>1. Behind(0)
  BY DEF Http!Init, Behind, Http!Body
<1> QED
  BY <1>1 DEF Http!Init, CallInv, OptionsInv, Http!CURLE_OK

LEMMA CallStep == ASSUME Http!Bounds, CallInv, OptionsInv, [Http!Next]_Http!vars PROVE CallInv' /\ OptionsInv'
<1>0. /\ calls \in Nat /\ length \in Nat /\ before \in Seq(Pieces) /\ MaxLength \in Nat
      /\ \A k \in Nat : Http!Body(k) \in Seq(Pieces) /\ Len(Http!Body(k)) = k
  BY BodyIsSeq DEF CallInv, Http!Bounds
<1>00. strResponse \in Seq(Pieces) /\ strResponse \o <<>> = strResponse
  <2>1. PICK k \in 0..length : strResponse = before \o Http!Body(k)
    BY DEF CallInv, Behind
  <2>2. Http!Body(k) \in Seq(Pieces)
    BY <1>0
  <2>3. strResponse \in Seq(Pieces)
    BY <1>0, <2>1, <2>2
  <2> QED
    BY <2>3
<1>1. ASSUME NEW method \in {"Get", "Post", "Gets", "Posts"}, NEW https \in BOOLEAN, NEW supported \in BOOLEAN, NEW p,
             Http!Call(method, https, supported, p), supported /\ https => method \in {"Gets", "Posts"}
      PROVE  CallInv' /\ OptionsInv'
  <2>1. /\ pc = "idle" /\ calls' = calls + 1 /\ before' = strResponse /\ UNCHANGED <<curl, strResponse, length>>
        /\ call' = [method |-> method, https |-> https, pCaPath |-> p]
        /\ \/ supported /\ pc' = "init" /\ ret' = ret
           \/ ~supported /\ pc' = "idle" /\ ret' = -1
    BY <1>1 DEF Http!Call
  <2>2. Behind(0)'
    BY <1>00, <2>1 DEF Behind, Http!Body
  <2>3. CallInv'
    BY <1>0, <1>00, <2>1, <2>2 DEF CallInv, Http!CURLE_OK
  <2>4. OptionsInv'
    BY <1>1, <2>1 DEF OptionsInv
  <2> QED
    BY <2>3, <2>4
<1>2. CASE Http!EasyInit
  <2>1. /\ pc = "init" /\ UNCHANGED <<calls, call, strResponse, before, length>>
        /\ \/ pc' = "setopt"
           \/ pc' = "idle" /\ curl' = NULL /\ ret' = 2
    BY <1>2 DEF Http!EasyInit, Http!CURLE_FAILED_INIT
  <2>2. Behind(0)' /\ 0 \in 0..length'
    BY <1>0, <2>1 DEF Behind, Http!Body, CallInv
  <2>3. CallInv'
    BY <1>0, <2>1, <2>2 DEF CallInv, Http!CURLE_OK
  <2> QED
    BY <2>1, <2>3 DEF OptionsInv
<1>3. CASE Http!SetOpt
  <2>1. /\ pc = "setopt" /\ pc' = "perform" /\ curl' = Http!Options /\ length' \in 0..MaxLength
        /\ UNCHANGED <<calls, call, strResponse, before, ret>> /\ Behind(0)
    BY <1>3 DEF Http!SetOpt, CallInv
  <2>2. Behind(0)' /\ Http!Options' = Http!Options /\ length' \in Nat
    BY <1>0, <2>1 DEF Behind, Http!Body, Http!Options
  <2>3. CallInv'
    BY <1>0, <2>1, <2>2 DEF CallInv
  <2> QED
    BY <2>1, <2>2, <2>3 DEF OptionsInv
<1>4. CASE Http!OnWriteData
  <2>1. PICK k \in 0..length : Behind(k)
    BY DEF CallInv
  <2>2. Http!Body(k) \in Seq(Pieces) /\ Len(Http!Body(k)) = k /\ k \in Nat
    BY <1>0, <2>1
  <2>3. Http!Received = k
    BY <1>0, <2>1, <2>2 DEF Http!Received, Behind
  <2>4. /\ pc = "perform" /\ k < length /\ strResponse' = Append(strResponse, <<calls, k + 1>>)
        /\ UNCHANGED <<pc, calls, call, curl, before, length, ret>>
    BY <1>4, <2>3 DEF Http!OnWriteData
  <2>5. Http!Body(k + 1)' = Append(Http!Body(k), <<calls, k + 1>>)
    BY <1>0, <2>2, <2>4, BodyGrows DEF Http!Body
  <2>6. Behind(k + 1)'
    <3>1. \A a, b \in Nat : <<a, b>> \in Nat \X Nat
      OBVIOUS
    <3>2. <<calls, k + 1>> \in Pieces
      <4>1. calls \in Nat /\ k + 1 \in Nat
        BY <1>0, <2>2
      <4> QED
        BY <3>1, <4>1 DEF Pieces
    <3>4. Append(before \o Http!Body(k), <<calls, k + 1>>) = before \o Append(Http!Body(k), <<calls, k + 1>>)
      <4>1. PICK x : x = <<calls, k + 1>>
        OBVIOUS
      <4>2. PICK b : b = Http!Body(k)
        OBVIOUS
      <4>3. before \in Seq(Pieces) /\ b \in Seq(Pieces) /\ x \in Pieces
        BY <1>0, <2>2, <3>2, <4>1, <4>2
      <4>4. Append(before \o b, x) = before \o Append(b, x)
        BY <4>3
      <4> QED
        BY <4>1, <4>2, <4>4
    <3>3. strResponse' = before \o Append(Http!Body(k), <<calls, k + 1>>)
      BY <2>1, <2>4, <3>4 DEF Behind
    <3> QED
      BY <2>4, <2>5, <3>3 DEF Behind
  <2>7. k + 1 \in 0..length' /\ CallInv'
    BY <1>0, <2>2, <2>4, <2>6 DEF CallInv
  <2> QED
    BY <2>4, <2>7 DEF OptionsInv, Http!Options
<1>5. CASE Http!Perform
  <2>1. /\ pc = "perform" /\ pc' = "idle" /\ curl' = NULL /\ UNCHANGED <<calls, call, strResponse, before, length>>
        /\ Http!Received = length \/ ret' = Http!CURLE_OPERATION_TIMEDOUT
    BY <1>5 DEF Http!Perform
  <2>2. PICK k \in 0..length : Behind(k)
    BY DEF CallInv
  <2>3. Http!Received = k /\ Behind(k)'
    BY <1>0, <2>1, <2>2 DEF Http!Received, Behind, Http!Body
  <2>4. CallInv'
    BY <1>0, <2>1, <2>2, <2>3 DEF CallInv, Http!CURLE_OK, Http!CURLE_OPERATION_TIMEDOUT
  <2> QED
    BY <2>1, <2>4 DEF OptionsInv
<1>6. CASE Http!Clear
  <2>1. pc = "idle" /\ pc' = pc /\ calls' = calls /\ curl' = curl /\ strResponse' = <<>> /\ before' = <<>> /\ length' = 0
    BY <1>6 DEF Http!Clear
  <2>2. Behind(0)'
    BY <2>1 DEF Behind, Http!Body
  <2> QED
    BY <1>0, <2>1, <2>2 DEF CallInv, OptionsInv
<1>7. CASE UNCHANGED Http!vars
  BY <1>7 DEF Http!vars, CallInv, OptionsInv, Behind, Http!Body, Http!Options
<1>8. ASSUME NEW https \in BOOLEAN, NEW p, Http!Get(https) \/ Http!Post(https) \/ Http!Gets(https, p) \/ Http!Posts(https, p)
      PROVE  CallInv' /\ OptionsInv'
  BY <1>1, <1>8 DEF Http!Get, Http!Post, Http!Gets, Http!Posts
<1> QED
  BY <1>2, <1>3, <1>4, <1>5, <1>6, <1>7, <1>8 DEF Http!Next

LEMMA CallRight == ASSUME CallInv, OptionsInv PROVE Http!ResponseIsBehind /\ Http!HandleIsRight
<1>0. /\ calls \in Nat /\ length \in Nat /\ before \in Seq(Pieces)
      /\ \A k \in Nat : Http!Body(k) \in Seq(Pieces) /\ Len(Http!Body(k)) = k
  BY BodyIsSeq DEF CallInv
<1>1. PICK k \in 0..length : strResponse = before \o Http!Body(k)
  BY DEF CallInv, Behind
<1>6. pc = "idle" /\ ret = Http!CURLE_OK => strResponse = before \o Http!Body(length)
  BY DEF CallInv, Behind
<1>7. pc \in {"init", "setopt"} => strResponse = before
  BY <1>0 DEF CallInv, Behind, Http!Body
<1>8. Http!HandleIsRight
  <2>1. ASSUME pc = "perform" PROVE /\ call.https /\ call.pCaPath /= NULL => curl.verify
                                    /\ call.https => call.method \in {"Gets", "Posts"}
                                    /\ curl.timeout /\ ~curl.signal
    <3>1. curl = Http!Options /\ (call.https => call.method \in {"Gets", "Posts"})
      BY <2>1 DEF OptionsInv
    <3>2. /\ curl.verify = (call.method \in {"Gets", "Posts"} => call.pCaPath /= NULL)
          /\ curl.timeout = TRUE /\ curl.signal = FALSE
      BY <3>1 DEF Http!Options
    <3> QED
      BY <3>1, <3>2
  <2> QED
    BY <2>1 DEF OptionsInv, Http!HandleIsRight
<1>10. Http!ResponseIsBehind
  BY <1>1, <1>6, <1>7 DEF Http!ResponseIsBehind
<1> QED
  BY <1>8, <1>10

(* CHttpClient: the response of a call is put behind what was there, from a
   handle with the call's options (HttpClient.cpp:48-274).                 *)
THEOREM HttpSafe ==
    ASSUME Http!Bounds
    PROVE  Http!Spec => [](Http!ResponseIsBehind /\ Http!HandleIsRight)
BY CallInit, CallStep, CallRight, PTL DEF Http!Spec

-----------------------------------------------------------------------------
(* Of the callers, who may have been first: those in GetInstance or with
   an instance.  LoadIsRecent rests on the time of the last look.          *)
Asked == {g \in Thread : pc[g] /= "idle" \/ mine[g] /= NONE}
SystemInv ==
    /\ System!TypeOK
    /\ mine \in [Thread -> objects \cup {NONE}]
    /\ objects \subseteq Asked
    /\ \A h \in Thread : pc[h] = "read" => s_pSystem /= NONE
    /\ m_fCurLoadAverage \in [Thread -> 0..MaxTime] /\ m_nLastTimestamp \in [Thread -> 0..MaxTime]
    /\ failed \in [Thread -> BOOLEAN]
    /\ \A o \in Thread : m_nLastTimestamp[o] <= now
    /\ \A o \in Thread : failed[o] = TRUE \/ m_fCurLoadAverage[o] = m_nLastTimestamp[o]

LEMMA SystemInit == ASSUME System!Times, System!Callers PROVE System!Init => SystemInv
BY DEF System!Init, SystemInv, System!TypeOK, Asked, System!Times, System!Callers

LEMMA SystemGets ==
    ASSUME System!Callers, SystemInv, NEW h \in Thread, System!Test(h) \/ System!New(h) \/ System!Read(h)
    PROVE  SystemInv'
<1> USE DEF SystemInv, System!TypeOK, Asked, System!Goto, System!cached
<1>1. CASE System!Test(h)
  BY <1>1 DEF System!Test
<1>2. CASE System!New(h)
  BY <1>2 DEF System!New, System!Callers
<1>3. CASE System!Read(h)
  BY <1>3 DEF System!Read
<1> QED
  BY <1>1, <1>2, <1>3

LEMMA SystemReads ==
    ASSUME System!Times, SystemInv, NEW h \in Thread, NEW o \in Thread,
           System!GetHostName(h, o) \/ System!GetCpuNum(h, o) \/ System!GetCurLoad(h, o)
    PROVE  SystemInv'
<1> USE DEF SystemInv, System!TypeOK, Asked
<1>1. CASE System!GetHostName(h, o)
  BY <1>1 DEF System!GetHostName
<1>2. CASE System!GetCpuNum(h, o)
  BY <1>2 DEF System!GetCpuNum
<1>3. CASE System!GetCurLoad(h, o)
  <2>1. now \in 0..MaxTime /\ now \in Nat
    BY DEF System!Times
  <2>2. /\ UNCHANGED <<s_pSystem, objects, pc, mine, now, m_nCpuNum, m_sHostName>>
        /\ m_nLastTimestamp' \in {m_nLastTimestamp, [m_nLastTimestamp EXCEPT ![o] = now]}
    BY <1>3 DEF System!GetCurLoad
  <2>3. m_nLastTimestamp' \in [Thread -> 0..MaxTime] /\ \A x \in Thread : m_nLastTimestamp'[x] <= now'
    BY <2>1, <2>2
  <2>4. CASE /\ m_fCurLoadAverage' = [m_fCurLoadAverage EXCEPT ![o] = now]
             /\ m_nLastTimestamp' = [m_nLastTimestamp EXCEPT ![o] = now]
             /\ failed' = [failed EXCEPT ![o] = FALSE]
    <3>1. \A x \in Thread \ {o} : /\ m_fCurLoadAverage'[x] = m_fCurLoadAverage[x] /\ failed'[x] = failed[x]
                                  /\ m_nLastTimestamp'[x] = m_nLastTimestamp[x]
      BY <2>4
    <3>2. m_fCurLoadAverage'[o] = m_nLastTimestamp'[o]
      BY <2>4
    <3>3. m_fCurLoadAverage' \in [Thread -> 0..MaxTime] /\ failed' \in [Thread -> BOOLEAN]
      BY <2>1, <2>4
    <3>4. \A x \in Thread : failed'[x] = TRUE \/ m_fCurLoadAverage'[x] = m_nLastTimestamp'[x]
      BY <3>1, <3>2
    <3> QED
      BY <2>2, <2>3, <3>3, <3>4
  <2>5. CASE failed' = [failed EXCEPT ![o] = TRUE] /\ UNCHANGED m_fCurLoadAverage
    <3>1. /\ failed'[o] = TRUE /\ failed' \in [Thread -> BOOLEAN]
          /\ \A x \in Thread \ {o} : failed'[x] = failed[x] /\ m_nLastTimestamp'[x] = m_nLastTimestamp[x]
      BY <2>2, <2>5
    <3>2. \A x \in Thread : failed'[x] = TRUE \/ m_fCurLoadAverage'[x] = m_nLastTimestamp'[x]
      BY <2>5, <3>1
    <3> QED
      BY <2>2, <2>3, <2>5, <3>1, <3>2
  <2> QED
    BY <1>3, <2>4, <2>5 DEF System!GetCurLoad
<1> QED
  BY <1>1, <1>2, <1>3

LEMMA SystemKeeps == ASSUME System!Times, System!Callers, SystemInv, [System!Next]_System!vars PROVE SystemInv'
<1>1. CASE System!Tick
  BY <1>1 DEF System!Tick, System!cached, SystemInv, System!TypeOK, Asked, System!Times
<1>2. CASE UNCHANGED System!vars
  BY <1>2 DEF System!vars, System!cached, SystemInv, System!TypeOK, Asked
<1> QED
  BY <1>1, <1>2, SystemGets, SystemReads DEF System!Next

(* What SystemInv says: an object for everybody in GetInstance at most, and
   a load that is as old as the last look at it.                           *)
LEMMA SystemRight == ASSUME System!Times, System!Callers, SystemInv PROVE System!TypeOK /\ System!InstanceIsMade /\ System!LoadIsRecent
<1>1. System!InstanceIsMade
  <2>1. IsFiniteSet(Asked) /\ objects \subseteq Asked
    BY FS_Subset, SameCardinality DEF SystemInv, Asked, System!Callers
  <2>2. Cardinality(objects) <= Cardinality(Asked)
    BY <2>1, FS_Subset
  <2>3. \A h \in Thread : (pc[h] = "read" => s_pSystem \in objects) /\ (mine[h] /= NONE => mine[h] \in objects)
    BY DEF SystemInv, System!TypeOK
  <2> QED
    BY <2>2, <2>3, SameCardinality DEF System!InstanceIsMade, Asked
<1>2. System!LoadIsRecent
  <2> SUFFICES ASSUME NEW o \in objects, System!Fresh(o), ~failed[o]
               PROVE  m_fCurLoadAverage[o] \in {now - 1, now}
    BY DEF System!LoadIsRecent
  <2>1. /\ o \in Thread /\ now \in Nat /\ m_nLastTimestamp[o] \in Nat /\ m_nLastTimestamp[o] <= now
        /\ failed[o] \in BOOLEAN /\ (failed[o] = TRUE \/ m_fCurLoadAverage[o] = m_nLastTimestamp[o])
    BY DEF SystemInv, System!TypeOK, System!Times
  <2>2. m_fCurLoadAverage[o] = m_nLastTimestamp[o]
    BY <2>1
  <2>3. now - m_nLastTimestamp[o] < 2
    BY DEF System!Fresh
  <2> QED
    BY <2>1, <2>2, <2>3
<1> QED
  BY <1>1, <1>2 DEF SystemInv

(* SystemInfo: at most one object for every caller that was in GetInstance,
   and a load no older than a second (SystemInfo.cpp).                     *)
THEOREM SystemSafe ==
    ASSUME System!Times, System!Callers
    PROVE  System!Spec => [](System!TypeOK /\ System!InstanceIsMade /\ System!LoadIsRecent)
BY SystemInit, SystemKeeps, SystemRight, PTL DEF System!Spec

-----------------------------------------------------------------------------
(* s_instance is the last object made, or none.                            *)
LastOrNone ==
    /\ s_instance \in {NONE, made}
    /\ living = (IF s_instance = NONE THEN {} ELSE {s_instance})

(* What the holder of the lock has made of the object.                     *)
HolderInv ==
    /\ \A u \in User :
        /\ pc[u] \in {"build", "free"} => s_instance /= NONE /\ built = {}
        /\ pc[u] = "unlock" => s_instance /= NONE
    /\ (\A u \in User : pc[u] \notin {"build", "free"}) => built = living

(* Only Destroy leads to the labels of Destroy.                            *)
NoDestroyer ==
    ~destroys => \A u \in User : pc[u] \notin {"dlock", "destroy", "free", "dunlock"}

SingletonInv == Single!TypeOK /\ LastOrNone /\ HolderInv /\ NoDestroyer /\ Single!SameForAll

-----------------------------------------------------------------------------
LEMMA SingletonInit == ASSUME Single!Distinct, Single!InstanceBound PROVE Single!Init => SingletonInv
<1> SUFFICES ASSUME Single!Init PROVE SingletonInv
  OBVIOUS
<1> USE DEF Single!Init, Single!Distinct
<1>1. Single!TypeOK
  <2>1. \A u \in User : u /= NONE
    OBVIOUS
  <2>2. pc \in [User -> Single!Inside \cup Single!Outside] /\ \A u \in User : pc[u] \in Single!Inside <=> holder = u
    BY <2>1 DEF Single!Inside, Single!Outside
  <2>3. got \in [User -> (1..made) \cup {NONE, NOTYET}]
    OBVIOUS
  <2>4. QED BY <2>2, <2>3 DEF Single!TypeOK
<1>2. LastOrNone /\ HolderInv /\ NoDestroyer
  BY DEF LastOrNone, HolderInv, NoDestroyer
<1>3. Single!SameForAll
  BY DEF Single!SameForAll
<1>4. QED BY <1>1, <1>2, <1>3 DEF SingletonInv

(* Two threads are never both between wlock and unlock (Thread.cpp:72-80). *)
LEMMA OneInside ==
    ASSUME Single!Distinct, Single!TypeOK, NEW u \in User, NEW v \in User, pc[u] \in Single!Inside, pc[v] \in Single!Inside
    PROVE  u = v
BY DEF Single!TypeOK

LEMMA SingletonKeeps ==
    ASSUME Single!Distinct, Single!InstanceBound, SingletonInv, [Single!Next]_Single!vars
    PROVE  SingletonInv'
<1> USE DEF Single!Distinct, Single!InstanceBound, SingletonInv
<1>0. CASE UNCHANGED Single!vars
  BY <1>0 DEF Single!vars, Single!TypeOK, LastOrNone, HolderInv, NoDestroyer, Single!SameForAll, Single!Inside,
     Single!Outside
<1>1. SUFFICES ASSUME NEW u \in User, Single!GetInstance(u) \/ Single!Destroy(u) PROVE SingletonInv'
  BY <1>0 DEF Single!Next
<1> USE DEF Single!Goto, Single!TypeOK, LastOrNone, HolderInv, NoDestroyer, Single!SameForAll, Single!Inside, Single!Outside
<1>2. CASE Single!Test(u)
  BY <1>2 DEF Single!Test
<1>3. CASE Single!WLock(u, "wlock", "create")
  BY <1>3 DEF Single!WLock
<1>4. CASE Single!Retest(u)
  BY <1>4 DEF Single!Retest
<1>5. CASE Single!New(u)
  <2>1. living = {} /\ built = {}
    BY <1>5 DEF Single!New
  <2>2. living' = {made'} /\ s_instance' = made' /\ made' \in Nat /\ made' >= 1
    BY <1>5, <2>1 DEF Single!New
  <2>3. QED BY <1>5, <2>1, <2>2 DEF Single!New
<1>6. CASE Single!Build(u)
  <2>1. s_instance = made /\ living = {made} /\ built' = {made}
    BY <1>6 DEF Single!Build
  <2>2. \A v \in User : pc'[v] \notin {"build", "free"}
    BY <1>6, OneInside DEF Single!Build
  <2>3. QED BY <1>6, <2>1, <2>2 DEF Single!Build
<1>7. CASE Single!Unlock(u, "unlock", "read")
  BY <1>7 DEF Single!Unlock
<1>8. CASE Single!Read(u)
  BY <1>8 DEF Single!Read
<1>9. CASE Single!DestroyCall(u)
  BY <1>9 DEF Single!DestroyCall
<1>10. CASE Single!WLock(u, "dlock", "destroy")
  BY <1>10 DEF Single!WLock
<1>11. CASE Single!DestroyNothing(u)
  BY <1>11 DEF Single!DestroyNothing
<1>12. CASE Single!Delete(u)
  <2>1. \A v \in User : pc[v] \notin {"build", "free"}
    BY <1>12, OneInside DEF Single!Delete
  <2>2. built = {s_instance} /\ built' = {}
    BY <1>12, <2>1 DEF Single!Delete
  <2>3. QED BY <1>12, <2>1, <2>2 DEF Single!Delete
<1>13. CASE Single!Free(u)
  <2>1. living' = {} /\ built = {} /\ s_instance' = NONE
    BY <1>13 DEF Single!Free
  <2>2. \A v \in User : pc'[v] \notin {"build", "free", "unlock"}
    BY <1>13, OneInside DEF Single!Free
  <2>3. QED BY <1>13, <2>1, <2>2 DEF Single!Free
<1>14. CASE Single!Unlock(u, "dunlock", "idle")
  BY <1>14 DEF Single!Unlock
<1>15. QED
  BY <1>1, <1>2, <1>3, <1>4, <1>5, <1>6, <1>7, <1>8, <1>9, <1>10, <1>11, <1>12, <1>13, <1>14
  DEF Single!GetInstance, Single!Destroy

LEMMA SingletonRight == SingletonInv => Single!TypeOK /\ Single!OneInstance /\ Single!SameForAll
BY DEF SingletonInv, LastOrNone, HolderInv, Single!OneInstance

(* Singleton: one instance, and the same for all (singleton.h).            *)
THEOREM SingletonSafe ==
    ASSUME Single!Distinct, Single!InstanceBound
    PROVE  Single!Spec => [](Single!TypeOK /\ Single!OneInstance /\ Single!SameForAll)
<1>1. Single!Init => SingletonInv
  BY SingletonInit
<1>2. SingletonInv /\ [Single!Next]_Single!vars => SingletonInv'
  BY SingletonKeeps
<1>3. QED
  BY <1>1, <1>2, SingletonRight, PTL DEF Single!Spec

-----------------------------------------------------------------------------
(* An open socket.                                                         *)
IsSocket(s) ==
    /\ s.type \in {"datagram", "stream"}
    /\ s = [type |-> s.type, bound |-> s.bound, peer |-> s.peer, listening |-> s.listening,
            blocked |-> s.blocked, options |-> s.options, waiting |-> s.waiting, shut |-> s.shut]

(* Handles, the caller's hand and the system's sockets say the same.       *)
Held(d) == d \in hand \/ \E o \in Obj : m_hSocket[o] = d
HandleInv ==
    /\ living \subseteq Obj /\ m_hSocket \in [Obj -> Sock!FD \cup {Sock!INVALID_SOCKET}] /\ hand \subseteq Sock!FD
    /\ socket = [d \in Sock!FD |-> socket[d]]
    /\ \A o \in Obj \ living : m_hSocket[o] = Sock!INVALID_SOCKET
    /\ \A o, p \in Obj : m_hSocket[o] = m_hSocket[p] /\ m_hSocket[o] # Sock!INVALID_SOCKET => o = p
    /\ \A o \in Obj : m_hSocket[o] \notin hand
    /\ \A d \in Sock!FD : IF Held(d) THEN IsSocket(socket[d]) ELSE socket[d] = Sock!CLOSED

LEMMA Descriptor == ASSUME Sock!SocketBounds PROVE Sock!INVALID_SOCKET \notin Sock!FD /\ Sock!FD \subseteq Nat
BY DEF Sock!SocketBounds, Sock!INVALID_SOCKET, Sock!FD

LEMMA NotClosed == \A s : IsSocket(s) => s # Sock!CLOSED
BY DEF IsSocket, Sock!CLOSED, Sock!Fresh

LEMMA Changed ==
    ASSUME NEW s, IsSocket(s), NEW v
    PROVE  /\ IsSocket([s EXCEPT !.bound = v]) /\ IsSocket([s EXCEPT !.peer = v])
           /\ IsSocket([s EXCEPT !.listening = v]) /\ IsSocket([s EXCEPT !.blocked = v])
           /\ IsSocket([s EXCEPT !.options = v]) /\ IsSocket([s EXCEPT !.waiting = v])
           /\ IsSocket([s EXCEPT !.shut = v])
           /\ [s EXCEPT !.options = v].options = v
<1>1. PICK t, b, p, l, k, o, w, h :
         /\ t \in {"datagram", "stream"}
         /\ s = [type |-> t, bound |-> b, peer |-> p, listening |-> l, blocked |-> k, options |-> o, waiting |-> w, shut |-> h]
  BY DEF IsSocket
<1> QED
  BY <1>1 DEF IsSocket

LEMMA Opened ==
    ASSUME NEW type \in {"datagram", "stream"}
    PROVE  IsSocket(Sock!Fresh(type)) /\ \A v : IsSocket([Sock!Fresh(type) EXCEPT !.peer = v])
<1>1. IsSocket(Sock!Fresh(type))
  BY DEF IsSocket, Sock!Fresh
<1> QED
  BY <1>1, Changed

LEMMA FreeIs == ASSUME Sock!SocketBounds, HandleInv, Sock!Free # {} PROVE Sock!Min(Sock!Free) \in Sock!FD /\ ~Held(Sock!Min(Sock!Free))
<1>1. Sock!Free \subseteq Nat
  BY Descriptor DEF Sock!Free
<1>2. PICK n \in Sock!Free : \A k \in Sock!Free : n <= k
  BY <1>1, Least
<1>3. Sock!Min(Sock!Free) \in Sock!Free
  BY <1>2 DEF Sock!Min
<1> QED
  BY <1>3, NotClosed DEF Sock!Free, HandleInv

LEMMA SocketsInit == Sock!SocketBounds /\ Sock!Init => HandleInv
<1> SUFFICES ASSUME Sock!SocketBounds, Sock!Init PROVE HandleInv
  OBVIOUS
<1>1. /\ living = {} /\ m_hSocket = [o \in Obj |-> Sock!INVALID_SOCKET] /\ hand = {}
      /\ socket = [d \in Sock!FD |-> Sock!CLOSED]
  BY DEF Sock!Init
<1>2. \A d \in Sock!FD : ~Held(d) /\ socket[d] = Sock!CLOSED
  BY <1>1, Descriptor DEF Held
<1> QED
  BY <1>1, <1>2 DEF HandleInv

(* What is done to an open socket leaves who holds what.                   *)
LEMMA SocketChanges ==
    ASSUME Sock!SocketBounds, HandleInv, UNCHANGED <<living, m_hSocket, hand>>,
           NEW d \in Sock!FD, IsSocket(socket[d]), NEW s, IsSocket(s), socket' = [socket EXCEPT ![d] = s]
    PROVE  HandleInv' /\ socket'[d] = s
<1>1. socket = [e \in Sock!FD |-> socket[e]]
  BY DEF HandleInv
<1>2. socket' = [e \in Sock!FD |-> socket'[e]] /\ socket'[d] = s /\ \A e \in Sock!FD : e # d => socket'[e] = socket[e]
  BY <1>1
<1>3. \A e \in Sock!FD : Held(e)' <=> Held(e)
  BY DEF Held
<1>4. Held(d)
  BY NotClosed DEF HandleInv
<1>5. \A e \in Sock!FD : IF Held(e)' THEN IsSocket(socket'[e]) ELSE socket'[e] = Sock!CLOSED
  BY <1>2, <1>3, <1>4 DEF HandleInv
<1>6. (\A e \in Sock!FD : IF Held(e) THEN IsSocket(socket[e]) ELSE socket[e] = Sock!CLOSED)'
  BY <1>5
<1> QED
  BY <1>2, <1>6 DEF HandleInv

LEMMA NothingChanges ==
    ASSUME HandleInv, UNCHANGED <<living, m_hSocket, hand, socket>>
    PROVE  HandleInv'
BY DEF HandleInv, Held, IsSocket

LEMMA ValidIs ==
    ASSUME HandleInv, NEW o \in Obj, Sock!IsValid(o)
    PROVE  Sock!Handle(o) \in Sock!FD /\ IsSocket(Sock!System(o)) /\ Sock!With(o) = Sock!System(o)
BY DEF HandleInv, Sock!IsValid, Sock!Handle, Sock!System, Sock!With, Held

LEMMA OutcomeKeeps ==
    ASSUME Sock!SocketBounds, HandleInv, NEW o \in Obj, NEW name, NEW given, NEW may, NEW s,
           IsSocket(Sock!With(o)) => IsSocket(s), Sock!Outcome(o, name, given, may, s)
    PROVE  /\ HandleInv' /\ o \in living
           /\ UNCHANGED <<living, m_hSocket, hand>>
           /\ \/ told' = <<name, given, 0>> /\ Sock!IsValid(o) /\ may /\ Sock!Handle(o) \in Sock!FD /\ socket'[Sock!Handle(o)] = s /\ IsSocket(s)
              \/ told' = <<name, given, -1>> /\ ~(Sock!IsValid(o) /\ may)
<1>1. UNCHANGED <<living, m_hSocket, hand>> /\ o \in living
  BY DEF Sock!Outcome, Sock!MethodCall
<1>2. CASE Sock!IsValid(o) /\ may
  <2>1. Sock!Handle(o) \in Sock!FD /\ IsSocket(socket[Sock!Handle(o)]) /\ IsSocket(s)
    BY <1>2, ValidIs DEF Sock!System
  <2>2. socket' = [socket EXCEPT ![Sock!Handle(o)] = s] /\ told' = <<name, given, 0>>
    BY <1>2 DEF Sock!Outcome, Sock!Becomes
  <2>3. HandleInv' /\ socket'[Sock!Handle(o)] = s
    BY <1>1, <2>1, <2>2, SocketChanges
  <2> QED
    BY <1>1, <1>2, <2>1, <2>2, <2>3
<1>3. CASE ~(Sock!IsValid(o) /\ may)
  <2>1. socket' = socket /\ told' = <<name, given, -1>>
    BY <1>3 DEF Sock!Outcome
  <2>2. HandleInv'
    BY <1>1, <2>1, NothingChanges
  <2> QED
    BY <1>1, <1>3, <2>1, <2>2
<1> QED
  BY <1>2, <1>3

(* One place more, or one less, has the descriptor.                        *)
LEMMA Moves ==
    ASSUME Sock!SocketBounds, HandleInv, NEW o \in Obj, NEW d \in Sock!FD,
           living' \subseteq Obj, m_hSocket' = [m_hSocket EXCEPT ![o] = d],
           ~Sock!IsValid(o), d \notin hand', \A p \in Obj : m_hSocket[p] # d,
           \A p \in Obj \ living' : p # o /\ p \notin living,
           hand' \subseteq Sock!FD, hand' \subseteq hand, \A e \in hand : e = d \/ e \in hand',
           socket' = [e \in Sock!FD |-> socket'[e]], IsSocket(socket'[d]), \A e \in Sock!FD : e # d => socket'[e] = socket[e]
    PROVE  HandleInv'
<1>1. m_hSocket'[o] = d /\ \A p \in Obj : p # o => m_hSocket'[p] = m_hSocket[p]
  BY DEF HandleInv
<1>2. m_hSocket' \in [Obj -> Sock!FD \cup {Sock!INVALID_SOCKET}] /\ d # Sock!INVALID_SOCKET
  BY Descriptor DEF HandleInv
<1>3. \A p \in Obj \ living' : m_hSocket'[p] = Sock!INVALID_SOCKET
  BY <1>1 DEF HandleInv
<1>4. \A p, q \in Obj : m_hSocket'[p] = m_hSocket'[q] /\ m_hSocket'[p] # Sock!INVALID_SOCKET => p = q
  BY <1>1 DEF HandleInv
<1>5. \A p \in Obj : m_hSocket'[p] \notin hand'
  BY <1>1 DEF HandleInv
<1>6. \A e \in Sock!FD : Held(e)' <=> (Held(e) \/ e = d)
  <2> TAKE e \in Sock!FD
  <2>1. m_hSocket[o] = Sock!INVALID_SOCKET /\ e # Sock!INVALID_SOCKET
    BY Descriptor DEF Sock!IsValid
  <2>2. CASE e = d
    BY <1>1, <2>2 DEF Held
  <2>3. CASE e # d
    BY <1>1, <2>1, <2>3 DEF Held
  <2> QED
    BY <2>2, <2>3
<1>7. \A e \in Sock!FD : IF Held(e)' THEN IsSocket(socket'[e]) ELSE socket'[e] = Sock!CLOSED
  BY <1>6 DEF HandleInv
<1>8. (\A e \in Sock!FD : IF Held(e) THEN IsSocket(socket[e]) ELSE socket[e] = Sock!CLOSED)'
  BY <1>7
<1> QED
  BY <1>2, <1>3, <1>4, <1>5, <1>8 DEF HandleInv

(* What an object had, it has no more: the caller has it, or it is closed.  *)
LEMMA Leaves ==
    ASSUME Sock!SocketBounds, HandleInv, NEW o \in Obj,
           living' \subseteq Obj, \A p \in Obj \ living' : p = o \/ p \notin living,
           m_hSocket' = [m_hSocket EXCEPT ![o] = Sock!INVALID_SOCKET],
           socket' = [e \in Sock!FD |-> socket'[e]], \A e \in Sock!FD : e # Sock!Handle(o) => socket'[e] = socket[e],
           \/ ~Sock!IsValid(o) /\ hand' = hand
           \/ Sock!IsValid(o) /\ hand' = hand /\ socket'[Sock!Handle(o)] = Sock!CLOSED
           \/ Sock!IsValid(o) /\ hand' = hand \cup {Sock!Handle(o)} /\ socket'[Sock!Handle(o)] = socket[Sock!Handle(o)]
    PROVE  HandleInv'
<1>1. m_hSocket'[o] = Sock!INVALID_SOCKET /\ \A p \in Obj : p # o => m_hSocket'[p] = m_hSocket[p]
  BY DEF HandleInv
<1>2. m_hSocket' \in [Obj -> Sock!FD \cup {Sock!INVALID_SOCKET}] /\ Sock!INVALID_SOCKET \notin Sock!FD
  BY Descriptor DEF HandleInv
<1>3. \A p \in Obj \ living' : m_hSocket'[p] = Sock!INVALID_SOCKET
  BY <1>1 DEF HandleInv
<1>4. \A p, q \in Obj : m_hSocket'[p] = m_hSocket'[q] /\ m_hSocket'[p] # Sock!INVALID_SOCKET => p = q
  BY <1>1 DEF HandleInv
<1>5. hand' \subseteq Sock!FD
  BY ValidIs DEF HandleInv
<1>6. \A p \in Obj : m_hSocket'[p] \notin hand'
  <2> TAKE p \in Obj
  <2>1. CASE p = o
    BY <1>1, <1>2, <1>5, <2>1
  <2>2. CASE p # o
    BY <1>1, <2>2 DEF HandleInv, Sock!Handle, Sock!IsValid
  <2> QED
    BY <2>1, <2>2
<1>7. \A e \in Sock!FD : e # Sock!Handle(o) => (Held(e)' <=> Held(e))
  BY <1>1, <1>2 DEF Held, Sock!Handle
<1>8. \A e \in Sock!FD : e # Sock!Handle(o) => IF Held(e)' THEN IsSocket(socket'[e]) ELSE socket'[e] = Sock!CLOSED
  BY <1>7 DEF HandleInv
<1>9. PICK h : h = Sock!Handle(o)
  OBVIOUS
<1>11. h \in Sock!FD => IF Held(h)' THEN IsSocket(socket'[h]) ELSE socket'[h] = Sock!CLOSED
  <2> SUFFICES ASSUME h \in Sock!FD
               PROVE  IF Held(h)' THEN IsSocket(socket'[h]) ELSE socket'[h] = Sock!CLOSED
    OBVIOUS
  <2>1. Sock!IsValid(o) /\ IsSocket(socket[h]) /\ h \notin hand
    BY <1>2, <1>9, ValidIs DEF Sock!IsValid, Sock!Handle, Sock!System, HandleInv
  <2>2. \A p \in Obj : m_hSocket'[p] # h
    BY <1>1, <1>2, <1>9, <2>1 DEF HandleInv, Sock!Handle, Sock!IsValid
  <2>3. CASE hand' = hand /\ socket'[h] = Sock!CLOSED
    BY <2>1, <2>2, <2>3 DEF Held
  <2>4. CASE hand' = hand \cup {h} /\ socket'[h] = socket[h]
    BY <2>1, <2>2, <2>4 DEF Held
  <2> QED
    BY <1>9, <2>1, <2>3, <2>4
<1>10. (\A e \in Sock!FD : IF Held(e) THEN IsSocket(socket[e]) ELSE socket[e] = Sock!CLOSED)'
  BY <1>8, <1>9, <1>11
<1> QED
  BY <1>2, <1>3, <1>4, <1>5, <1>6, <1>10 DEF HandleInv

-----------------------------------------------------------------------------
Timeouts == {"SO_RCVTIMEO", "SO_SNDTIMEO"}
Asking == {"RecvFrom", "Accept"} \cup Timeouts

LEMMA Silent == ASSUME told'[1] \notin Asking PROVE Sock!AnswersRight'
BY DEF Sock!AnswersRight, Asking, Timeouts

LEMMA OutcomeSilent ==
    ASSUME Sock!SocketBounds, HandleInv, NEW o \in Obj, NEW name, name \notin Asking, NEW given, NEW may, NEW s,
           IsSocket(Sock!With(o)) => IsSocket(s), Sock!Outcome(o, name, given, may, s)
    PROVE  HandleInv' /\ Sock!AnswersRight'
<1>1. HandleInv' /\ (told' = <<name, given, 0>> \/ told' = <<name, given, -1>>)
  BY OutcomeKeeps, Zenon
<1>2. told'[1] = name
  BY <1>1
<1> QED
  BY <1>1, <1>2, Silent

(* Objects that come, go, or take and give descriptors.                    *)
LEMMA ObjectSteps ==
    ASSUME Sock!SocketBounds, HandleInv, NEW o \in Obj,
           \/ Sock!Construct(o) \/ Sock!Detach(o) \/ Sock!Close(o) \/ Sock!Destroy(o)
           \/ \E type \in {"datagram", "stream"} : Sock!Create(o, type)
           \/ \E s \in hand : Sock!ConstructFrom(o, s) \/ Sock!Attach(o, s)
    PROVE  HandleInv' /\ Sock!AnswersRight'
<1>0. /\ living \subseteq Obj /\ hand \subseteq Sock!FD /\ socket = [e \in Sock!FD |-> socket[e]]
      /\ \A p \in Obj \ living : m_hSocket[p] = Sock!INVALID_SOCKET
      /\ \A p \in Obj : m_hSocket[p] \notin hand
  BY DEF HandleInv
<1>00. told' = <<"none">>
  BY DEF Sock!Construct, Sock!Detach, Sock!Close, Sock!Destroy, Sock!Create, Sock!ConstructFrom, Sock!Attach
<1>01. Sock!AnswersRight'
  <2>1. told'[1] = "none"
    BY <1>00
  <2> QED
    BY <2>1, Silent DEF Asking, Timeouts
<1>1. CASE Sock!Construct(o)
  <2>1. /\ o \notin living /\ living' = living \cup {o} /\ hand' = hand /\ socket' = socket
        /\ m_hSocket' = [m_hSocket EXCEPT ![o] = Sock!INVALID_SOCKET]
    BY <1>1 DEF Sock!Construct
  <2>2. ~Sock!IsValid(o)
    BY <1>0, <2>1 DEF Sock!IsValid
  <2>3. HandleInv'
    BY <1>0, <2>1, <2>2, Leaves
  <2> QED
    BY <1>01, <2>3
<1>2. CASE Sock!Detach(o)
  <2>1. /\ Sock!IsValid(o) /\ o \in living /\ living' = living /\ hand' = hand \cup {Sock!Handle(o)} /\ socket' = socket
        /\ m_hSocket' = [m_hSocket EXCEPT ![o] = Sock!INVALID_SOCKET]
    BY <1>2 DEF Sock!Detach, Sock!MethodCall
  <2>2. HandleInv'
    BY <1>0, <2>1, Leaves
  <2> QED
    BY <1>01, <2>2
<1>3. CASE Sock!Close(o) \/ Sock!Destroy(o)
  <2>1. /\ o \in living /\ living' \subseteq living /\ (\A p \in living : p \in living' \/ p = o) /\ hand' = hand
        /\ m_hSocket' = [m_hSocket EXCEPT ![o] = Sock!INVALID_SOCKET]
        /\ socket' = IF Sock!IsValid(o) THEN [socket EXCEPT ![Sock!Handle(o)] = Sock!CLOSED] ELSE socket
    BY <1>3 DEF Sock!Close, Sock!Destroy, Sock!CloseOf, Sock!MethodCall
  <2>2. Sock!IsValid(o) => Sock!Handle(o) \in Sock!FD
    BY ValidIs
  <2>3. /\ socket' = [e \in Sock!FD |-> socket'[e]] /\ \A e \in Sock!FD : e # Sock!Handle(o) => socket'[e] = socket[e]
        /\ Sock!IsValid(o) => socket'[Sock!Handle(o)] = Sock!CLOSED
    BY <1>0, <2>1, <2>2
  <2>4. HandleInv'
    BY <1>0, <2>1, <2>3, Leaves
  <2> QED
    BY <1>01, <2>4
<1>4. ASSUME NEW type \in {"datagram", "stream"}, Sock!Create(o, type) PROVE HandleInv'
  <2>1. o \in living /\ ~Sock!IsValid(o) /\ UNCHANGED <<living, hand>>
    BY <1>4 DEF Sock!Create, Sock!MethodCall
  <2>2. CASE UNCHANGED <<m_hSocket, socket>>
    BY <2>1, <2>2, NothingChanges
  <2>3. CASE /\ Sock!Free # {} /\ socket' = [socket EXCEPT ![Sock!Min(Sock!Free)] = Sock!Fresh(type)]
             /\ m_hSocket' = [m_hSocket EXCEPT ![o] = Sock!Min(Sock!Free)]
    <3>1. PICK d : d = Sock!Min(Sock!Free)
      OBVIOUS
    <3>2. d \in Sock!FD /\ ~Held(d)
      BY <2>3, <3>1, FreeIs
    <3>3. d \notin hand /\ \A p \in Obj : m_hSocket[p] # d
      BY <3>2 DEF Held
    <3>4. /\ socket' = [e \in Sock!FD |-> socket'[e]] /\ socket'[d] = Sock!Fresh(type)
          /\ \A e \in Sock!FD : e # d => socket'[e] = socket[e]
      BY <1>0, <2>3, <3>1, <3>2
    <3>5. IsSocket(socket'[d])
      BY <3>4, Opened
    <3> QED
      BY <1>0, <2>1, <2>3, <3>1, <3>2, <3>3, <3>4, <3>5, Moves
  <2> QED
    BY <1>4, <2>2, <2>3 DEF Sock!Create
<1>5. ASSUME NEW s \in hand, Sock!ConstructFrom(o, s) \/ Sock!Attach(o, s) PROVE HandleInv'
  <2>1. /\ hand' = hand \ {s} /\ m_hSocket' = [m_hSocket EXCEPT ![o] = s] /\ socket' = socket /\ ~Sock!IsValid(o)
        /\ living' \subseteq Obj /\ o \in living' /\ living \subseteq living'
    BY <1>0, <1>5 DEF Sock!ConstructFrom, Sock!Attach, Sock!MethodCall, Sock!IsValid
  <2>2. s \in Sock!FD /\ \A p \in Obj : m_hSocket[p] # s
    BY <1>0
  <2>3. IsSocket(socket'[s])
    BY <2>1, <2>2 DEF HandleInv, Held
  <2> QED
    BY <1>0, <2>1, <2>2, <2>3, Moves
<1> QED
  BY <1>01, <1>1, <1>2, <1>3, <1>4, <1>5

LEMMA OptionSteps ==
    ASSUME Sock!SocketBounds, HandleInv, NEW o \in Obj, NEW asked, NEW name, name \notin Asking, NEW value,
           Sock!SetSockOpt(o, asked, name, value)
    PROVE  HandleInv' /\ Sock!AnswersRight'
<1>1. PICK s : s = Sock!With(o)
  OBVIOUS
<1>2. PICK options : options = Sock!WithOption(s.options, name, value)
  OBVIOUS
<1>5. PICK t : t = [s EXCEPT !.options = options]
  OBVIOUS
<1>3. Sock!Outcome(o, name, asked, Sock!Accepts(s, name, value), t)
  BY <1>1, <1>2, <1>5 DEF Sock!SetSockOpt
<1>4. IsSocket(Sock!With(o)) => IsSocket(t)
  BY <1>1, <1>5, Changed
<1> QED
  BY <1>3, <1>4, OutcomeSilent, Zenon

LEMMA CallSteps ==
    ASSUME Sock!SocketBounds, HandleInv, NEW o \in Obj,
           \/ Sock!Listen(o) \/ Sock!Send(o) \/ Sock!GetPeerName(o) \/ Sock!GetSockName(o)
           \/ \E ip \in Sock!Text, port \in Port : Sock!Bind(o, ip, port) \/ Sock!Connect(o, ip, port) \/ Sock!SendTo(o, ip, port)
           \/ \E b \in BOOLEAN : Sock!IoBlocked(o, b) \/ Sock!ReuseAddr(o, b)
           \/ \E sz \in Sizes : Sock!SetRecvBufSize(o, sz) \/ Sock!SetSendBufSize(o, sz)
           \/ \E ip \in Ip \cup {BAD}, local \in Sock!Text : Sock!AddMembership(o, ip, local) \/ Sock!DropMembership(o, ip, local)
    PROVE  HandleInv' /\ Sock!AnswersRight'
<1>0. PICK s : s = Sock!With(o)
  OBVIOUS
<1>00. IsSocket(Sock!With(o)) =>
          \A v, t : \/ t = [s EXCEPT !.bound = v] \/ t = [s EXCEPT !.peer = v]
                  \/ t = [s EXCEPT !.listening = v] \/ t = [s EXCEPT !.blocked = v]
                  => IsSocket(t)
  <2> SUFFICES ASSUME IsSocket(s), NEW v, NEW t,
                      \/ t = [s EXCEPT !.bound = v] \/ t = [s EXCEPT !.peer = v]
                      \/ t = [s EXCEPT !.listening = v] \/ t = [s EXCEPT !.blocked = v]
               PROVE  IsSocket(t)
    BY <1>0
  <2> QED
    BY Changed
<1>02. IsSocket(Sock!With(o)) => IsSocket(s)
  BY <1>0
<1>01. /\ "Bind" \notin Asking /\ "Connect" \notin Asking /\ "Listen" \notin Asking /\ "Send" \notin Asking
       /\ "GetPeerName" \notin Asking /\ "GetSockName" \notin Asking /\ "SendTo" \notin Asking
       /\ "IoBlocked" \notin Asking /\ "SO_REUSEADDR" \notin Asking /\ "SO_RCVBUF" \notin Asking
       /\ "SO_SNDBUF" \notin Asking /\ "IP_ADD_MEMBERSHIP" \notin Asking /\ "IP_DROP_MEMBERSHIP" \notin Asking
  BY DEF Asking, Timeouts
<1>1. CASE Sock!Listen(o)
  <2>0. PICK t : t = [s EXCEPT !.listening = TRUE]
    OBVIOUS
  <2>1. Sock!Outcome(o, "Listen", <<>>, s.type = "stream", t)
    BY <1>0, <1>1, <2>0 DEF Sock!Listen
  <2>2. IsSocket(Sock!With(o)) => IsSocket(t)
    BY <1>00, <2>0
  <2> QED
    BY <1>01, <2>1, <2>2, OutcomeSilent, Zenon
<1>2. CASE Sock!Send(o)
  <2>1. Sock!Outcome(o, "Send", s.peer, s.peer # Sock!NoSockAddr /\ ~s.shut, s)
    BY <1>0, <1>2 DEF Sock!Send
  <2> QED
    BY <1>01, <1>02, <2>1, OutcomeSilent, Zenon
<1>3. CASE Sock!GetPeerName(o)
  <2>1. Sock!Outcome(o, "GetPeerName", s.peer, s.peer # Sock!NoSockAddr, s)
    BY <1>0, <1>3 DEF Sock!GetPeerName
  <2> QED
    BY <1>01, <1>02, <2>1, OutcomeSilent, Zenon
<1>4. CASE Sock!GetSockName(o)
  <2>1. Sock!Outcome(o, "GetSockName", s.bound, TRUE, s)
    BY <1>0, <1>4 DEF Sock!GetSockName
  <2> QED
    BY <1>01, <1>02, <2>1, OutcomeSilent, Zenon
<1>5. ASSUME NEW ip, NEW port, Sock!Bind(o, ip, port) PROVE HandleInv' /\ Sock!AnswersRight'
  <2>1. PICK a : a = Sock!SockAddr(ip, port)
    OBVIOUS
  <2>0. PICK t : t = [s EXCEPT !.bound = a]
    OBVIOUS
  <2>2. Sock!Outcome(o, "Bind", <<ip, port>>, s.bound = Sock!NoSockAddr /\ ~Sock!InUse(a), t)
    BY <1>0, <1>5, <2>1, <2>0 DEF Sock!Bind
  <2>3. IsSocket(Sock!With(o)) => IsSocket(t)
    BY <1>00, <2>0
  <2> QED
    BY <1>01, <2>2, <2>3, OutcomeSilent, Zenon
<1>6. ASSUME NEW ip, NEW port, Sock!Connect(o, ip, port) PROVE HandleInv' /\ Sock!AnswersRight'
  <2>1. PICK a : a = Sock!SockAddr(ip, port)
    OBVIOUS
  <2>0. PICK t : t = [s EXCEPT !.peer = a]
    OBVIOUS
  <2>2. PICK answered \in BOOLEAN :
            Sock!Outcome(o, "Connect", <<ip, port>>,
                    s.type = "datagram" \/ (answered /\ ~s.listening /\ s.peer = Sock!NoSockAddr), t)
    BY <1>0, <1>6, <2>1, <2>0 DEF Sock!Connect
  <2>3. IsSocket(Sock!With(o)) => IsSocket(t)
    BY <1>00, <2>0
  <2> QED
    BY <1>01, <2>2, <2>3, OutcomeSilent, Zenon
<1>7. ASSUME NEW ip, NEW port, Sock!SendTo(o, ip, port) PROVE HandleInv' /\ Sock!AnswersRight'
  <2>1. Sock!Outcome(o, "SendTo", Sock!SockAddr(ip, port), s.type = "datagram", s)
    BY <1>0, <1>7 DEF Sock!SendTo
  <2> QED
    BY <1>01, <1>02, <2>1, OutcomeSilent, Zenon
<1>8. ASSUME NEW b \in BOOLEAN, Sock!IoBlocked(o, b) PROVE HandleInv' /\ Sock!AnswersRight'
  <2>0. PICK t : t = [s EXCEPT !.blocked = b]
    OBVIOUS
  <2>1. Sock!Outcome(o, "IoBlocked", b, TRUE, t)
    BY <1>0, <1>8, <2>0 DEF Sock!IoBlocked
  <2>2. IsSocket(Sock!With(o)) => IsSocket(t)
    BY <1>00, <2>0
  <2> QED
    BY <1>01, <2>1, <2>2, OutcomeSilent, Zenon
<1>9. ASSUME NEW b \in BOOLEAN, Sock!ReuseAddr(o, b) PROVE HandleInv' /\ Sock!AnswersRight'
  BY <1>01, <1>9, OptionSteps, Zenon DEF Sock!ReuseAddr
<1>10. ASSUME NEW sz, Sock!SetRecvBufSize(o, sz) \/ Sock!SetSendBufSize(o, sz) PROVE HandleInv' /\ Sock!AnswersRight'
  BY <1>01, <1>10, OptionSteps, Zenon DEF Sock!SetRecvBufSize, Sock!SetSendBufSize
<1>11. ASSUME NEW ip, NEW local, Sock!AddMembership(o, ip, local) \/ Sock!DropMembership(o, ip, local)
       PROVE  HandleInv' /\ Sock!AnswersRight'
  BY <1>01, <1>11, OptionSteps, Zenon DEF Sock!AddMembership, Sock!DropMembership
<1> QED
  BY <1>1, <1>2, <1>3, <1>4, <1>5, <1>6, <1>7, <1>8, <1>9, <1>10, <1>11, Zenon

LEMMA TimevalIs ==
    ASSUME NEW ms \in Int, ms >= 0
    PROVE  /\ 0 <= Sock!Timeval(ms)[2] /\ Sock!Timeval(ms)[2] < 1000000
           /\ Sock!Timeval(ms)[1] * 1000 + Sock!Timeval(ms)[2] \div 1000 = ms
<1>1. PICK q \in Nat, r \in 0..999 : q = ms \div 1000 /\ r = ms % 1000 /\ ms = q * 1000 + r
  OBVIOUS
<1>2. Sock!Timeval(ms) = <<q, r * 1000>>
  BY <1>1 DEF Sock!Timeval
<1>3. PICK u \in Nat : u = r * 1000 /\ u < 1000000
  BY SMT
<1>4. u \div 1000 = r
  BY <1>3, SMT
<1>5. Sock!Timeval(ms)[1] = q /\ Sock!Timeval(ms)[2] = u
  BY <1>2, <1>3, SMT
<1> QED
  BY <1>1, <1>3, <1>4, <1>5, SMT

LEMMA TimeoutSteps ==
    ASSUME Sock!SocketBounds, HandleInv, NEW o \in Obj, NEW ms \in Int, Sock!SetRecvTimeout(o, ms) \/ Sock!SetSendTimeout(o, ms)
    PROVE  HandleInv' /\ Sock!AnswersRight'
<1>0. PICK name \in Timeouts : Sock!SetSockOpt(o, ms, name, Sock!Timeval(ms))
  BY DEF Sock!SetRecvTimeout, Sock!SetSendTimeout, Timeouts
<1>1. PICK s : s = Sock!With(o)
  OBVIOUS
<1>2. PICK value : value = Sock!Timeval(ms)
  OBVIOUS
<1>3. PICK options : options = Sock!WithOption(s.options, name, value)
  OBVIOUS
<1>4. PICK t : t = [s EXCEPT !.options = options]
  OBVIOUS
<1>5. Sock!Outcome(o, name, ms, Sock!Accepts(s, name, value), t)
  BY <1>0, <1>1, <1>2, <1>3, <1>4 DEF Sock!SetSockOpt
<1>6. IsSocket(Sock!With(o)) => IsSocket(t) /\ t.options = options
  BY <1>1, <1>4, Changed
<1>7. name \in DOMAIN options /\ options[name] = value
  BY <1>3 DEF Sock!WithOption, Timeouts
<1>8. ms >= 0 => Sock!Accepts(s, name, value)
  BY <1>0, <1>2, TimevalIs, SMT DEF Sock!Accepts, Timeouts
<1>9. /\ HandleInv' /\ o \in living /\ UNCHANGED <<living, m_hSocket, hand>>
      /\ \/ /\ told' = <<name, ms, 0>> /\ Sock!IsValid(o) /\ Sock!Accepts(s, name, value) /\ Sock!Handle(o) \in Sock!FD
            /\ socket'[Sock!Handle(o)] = t /\ IsSocket(t)
         \/ told' = <<name, ms, -1>> /\ ~(Sock!IsValid(o) /\ Sock!Accepts(s, name, value))
  <2>1. PICK may : may = Sock!Accepts(s, name, value)
    OBVIOUS
  <2>2. Sock!Outcome(o, name, ms, may, t)
    BY <1>5, <2>1
  <2>3. IsSocket(Sock!With(o)) => IsSocket(t)
    BY <1>6
  <2>4. /\ HandleInv' /\ o \in living /\ UNCHANGED <<living, m_hSocket, hand>>
        /\ \/ told' = <<name, ms, 0>> /\ Sock!IsValid(o) /\ may /\ Sock!Handle(o) \in Sock!FD /\ socket'[Sock!Handle(o)] = t /\ IsSocket(t)
           \/ told' = <<name, ms, -1>> /\ ~(Sock!IsValid(o) /\ may)
    BY <2>2, <2>3, OutcomeKeeps, Zenon
  <2> QED
    BY <2>1, <2>4
<1>10. CASE /\ told' = <<name, ms, 0>> /\ Sock!IsValid(o) /\ Sock!Handle(o) \in Sock!FD /\ socket'[Sock!Handle(o)] = t /\ IsSocket(t)
  <2>1. told'[1] = name /\ told'[2] = ms /\ told'[3] = 0
    BY <1>10
  <2>2. t.options = options /\ t # Sock!CLOSED
    BY <1>1, <1>6, <1>10, ValidIs, NotClosed
  <2>3. t \in Sock!OfSystem(name)'
    BY <1>7, <1>10, <2>2 DEF Sock!OfSystem, Sock!CLOSED, Sock!Fresh, Sock!NoSockAddr, Sock!NoOptions
  <2>4. ms >= 0 => t.options[name][1] * 1000 + t.options[name][2] \div 1000 = ms
    BY <1>2, <1>7, <2>2, TimevalIs, SMT
  <2> QED
    BY <1>9, <2>1, <2>3, <2>4 DEF Sock!AnswersRight, Timeouts
<1>11. CASE told' = <<name, ms, -1>> /\ ~(Sock!IsValid(o) /\ Sock!Accepts(s, name, value))
  <2>1. told'[1] = name /\ told'[2] = ms /\ told'[3] = -1
    BY <1>11
  <2>2. ms < 0 \/ ~Sock!IsValid(o)
    BY <1>8, <1>11
  <2>3. o \in living' /\ (Sock!IsValid(o)' <=> Sock!IsValid(o))
    BY <1>9 DEF Sock!IsValid
  <2> QED
    BY <1>9, <2>1, <2>2, <2>3 DEF Sock!AnswersRight, Timeouts
<1> QED
  BY <1>9, <1>10, <1>11

LEMMA ShutdownStep == ASSUME Sock!SocketBounds, HandleInv, NEW o \in Obj, Sock!Shutdown(o) PROVE HandleInv' /\ Sock!AnswersRight'
<1>1. told' = <<"none">> /\ UNCHANGED <<living, m_hSocket, hand>>
  BY DEF Sock!Shutdown
<1>2. Sock!AnswersRight'
  <2>1. told'[1] = "none"
    BY <1>1
  <2> QED
    BY <2>1, Silent DEF Asking, Timeouts
<1>3. CASE Sock!IsValid(o)
  <2>1. PICK d, s : d = Sock!Handle(o) /\ s = [socket[d] EXCEPT !.shut = TRUE]
    OBVIOUS
  <2>2. socket' = [socket EXCEPT ![d] = s] /\ d \in Sock!FD /\ IsSocket(socket[d])
    BY <1>3, <2>1, ValidIs DEF Sock!Shutdown, Sock!Becomes, Sock!System
  <2>3. IsSocket(s)
    BY <2>1, <2>2, Changed
  <2> QED
    BY <1>1, <1>2, <2>2, <2>3, SocketChanges
<1>4. CASE ~Sock!IsValid(o)
  <2>1. socket' = socket
    BY <1>4 DEF Sock!Shutdown
  <2> QED
    BY <1>1, <1>2, <2>1, NothingChanges
<1> QED
  BY <1>3, <1>4

LEMMA ArriveStep ==
    ASSUME Sock!SocketBounds, HandleInv, NEW d \in Sock!FD, NEW ip, NEW port, Sock!Arrive(d, ip, port)
    PROVE  HandleInv' /\ Sock!AnswersRight'
<1>1. told' = <<"none">> /\ UNCHANGED <<living, m_hSocket, hand>> /\ socket[d] # Sock!CLOSED
  BY DEF Sock!Arrive
<1>2. told'[1] = "none"
  BY <1>1
<1>3. Sock!AnswersRight'
  BY <1>2, Silent DEF Asking, Timeouts
<1>4. IsSocket(socket[d])
  BY <1>1 DEF HandleInv
<1>5. PICK w : w = Append(socket[d].waiting, Sock!SockAddr(ip, port))
  OBVIOUS
<1>6. PICK s : s = [socket[d] EXCEPT !.waiting = w]
  OBVIOUS
<1>7. socket' = [socket EXCEPT ![d] = s]
  BY <1>5, <1>6 DEF Sock!Arrive
<1>8. IsSocket(s)
  BY <1>4, <1>6, Changed
<1> QED
  BY <1>1, <1>3, <1>4, <1>7, <1>8, SocketChanges

(* What RecvFrom and Accept say of the peer.                               *)
LEMMA Answered ==
    ASSUME NEW name \in {"RecvFrom", "Accept"}, NEW w, NEW n \in Int, NEW addr, told' = <<name, w, n, addr>>,
           addr = IF n < 0 THEN Sock!NoSockAddr ELSE Head(w)
    PROVE  Sock!AnswersRight'
<1>1. told'[1] = name /\ told'[2] = w /\ told'[3] = n /\ told'[4] = addr
  OBVIOUS
<1>2. told'[1] \in {"RecvFrom", "Accept"} /\ told'[1] \notin Timeouts
  BY <1>1 DEF Timeouts
<1>3. told'[4] = IF told'[3] < 0 THEN Sock!NoSockAddr ELSE Head(told'[2])
  BY <1>1
<1> QED
  BY <1>2, <1>3 DEF Sock!AnswersRight, Timeouts, Sock!NoSockAddr

LEMMA RecvFromStep == ASSUME Sock!SocketBounds, HandleInv, NEW o \in Obj, Sock!RecvFrom(o) PROVE HandleInv' /\ Sock!AnswersRight'
<1>1. UNCHANGED <<living, m_hSocket, hand>>
  BY DEF Sock!RecvFrom
<1>2. PICK w : w = IF Sock!IsValid(o) THEN Sock!System(o).waiting ELSE <<>>
  OBVIOUS
<1>3. CASE /\ Sock!IsValid(o) /\ Sock!Becomes(o, [Sock!System(o) EXCEPT !.waiting = Tail(@)])
           /\ Sock!Answer("RecvFrom", o, 1, Head(Sock!System(o).waiting))
  <2>1. PICK a : a = Head(w)
    OBVIOUS
  <2>2. told' = <<"RecvFrom", w, 1, a>>
    BY <1>2, <1>3, <2>1 DEF Sock!Answer
  <2>3. Sock!AnswersRight'
    BY <2>1, <2>2, Answered
  <2>4. PICK d, r : d = Sock!Handle(o) /\ r = Tail(w)
    OBVIOUS
  <2>5. PICK s : s = [socket[d] EXCEPT !.waiting = r]
    OBVIOUS
  <2>6. socket' = [socket EXCEPT ![d] = s]
    BY <1>2, <1>3, <2>4, <2>5 DEF Sock!Becomes, Sock!System
  <2>7. d \in Sock!FD /\ IsSocket(socket[d])
    BY <1>3, <2>4, ValidIs DEF Sock!System
  <2>8. IsSocket(s)
    BY <2>5, <2>7, Changed
  <2> QED
    BY <1>1, <2>3, <2>6, <2>7, <2>8, SocketChanges
<1>4. CASE Sock!Answer("RecvFrom", o, -1, Sock!NoSockAddr) /\ UNCHANGED socket
  <2>1. told' = <<"RecvFrom", w, -1, Sock!NoSockAddr>>
    BY <1>2, <1>4 DEF Sock!Answer
  <2>2. Sock!AnswersRight'
    BY <2>1, Answered
  <2> QED
    BY <1>1, <1>4, <2>2, NothingChanges
<1> QED
  BY <1>3, <1>4 DEF Sock!RecvFrom

(* A descriptor that was free is in the caller's hand.                     *)
LEMMA HandsOut ==
    ASSUME Sock!SocketBounds, HandleInv, NEW h \in Sock!FD, NEW d \in Sock!FD, Held(h), ~Held(d),
           UNCHANGED <<living, m_hSocket>>, hand' = hand \cup {d},
           NEW s, IsSocket(s), NEW t, IsSocket(t),
           socket' = [socket EXCEPT ![h] = t, ![d] = s]
    PROVE  HandleInv'
<1>1. socket = [e \in Sock!FD |-> socket[e]] /\ h # d
  BY DEF HandleInv
<1>2. socket' = [e \in Sock!FD |-> socket'[e]] /\ socket'[h] = t /\ socket'[d] = s
  BY <1>1
<1>3. \A e \in Sock!FD : e # h /\ e # d => socket'[e] = socket[e]
  BY <1>1
<1>4. \A o \in Obj : m_hSocket[o] # d
  BY DEF Held
<1>5. \A e \in Sock!FD : Held(e)' <=> (Held(e) \/ e = d)
  BY DEF Held
<1>6. \A e \in Sock!FD : IF Held(e)' THEN IsSocket(socket'[e]) ELSE socket'[e] = Sock!CLOSED
  BY <1>2, <1>3, <1>5 DEF HandleInv
<1>7. (\A e \in Sock!FD : IF Held(e) THEN IsSocket(socket[e]) ELSE socket[e] = Sock!CLOSED)'
  BY <1>6
<1>8. /\ \A o \in Obj : m_hSocket'[o] \notin hand' 
      /\ hand' \subseteq Sock!FD
  BY <1>4 DEF HandleInv
<1> QED
  BY <1>2, <1>7, <1>8 DEF HandleInv

LEMMA AcceptStep == ASSUME Sock!SocketBounds, HandleInv, NEW o \in Obj, Sock!Accept(o) PROVE HandleInv' /\ Sock!AnswersRight'
<1>1. UNCHANGED <<living, m_hSocket>>
  BY DEF Sock!Accept
<1>2. PICK w : w = IF Sock!IsValid(o) THEN Sock!System(o).waiting ELSE <<>>
  OBVIOUS
<1>3. CASE Sock!IsValid(o) /\ Sock!System(o).listening /\ Sock!System(o).waiting # <<>> /\ Sock!Free # {}
  <2>1. PICK h, d, a, r : h = Sock!Handle(o) /\ d = Sock!Min(Sock!Free) /\ a = Head(w) /\ r = Tail(w)
    OBVIOUS
  <2>2. w = socket[h].waiting
    BY <1>2, <1>3, <2>1 DEF Sock!System
  <2>3. /\ h \in Sock!FD /\ IsSocket(socket[h]) /\ Held(h)
    BY <1>3, <2>1, ValidIs DEF Sock!System, Sock!Handle, Held
  <2>4. d \in Sock!FD /\ ~Held(d)
    BY <1>3, <2>1, FreeIs
  <2>5. PICK s : s = [Sock!Fresh("stream") EXCEPT !.peer = a]
    OBVIOUS
  <2>6. PICK t : t = [socket[h] EXCEPT !.waiting = r]
    OBVIOUS
  <2>7. /\ socket' = [socket EXCEPT ![h].waiting = Tail(@), ![d] = [Sock!Fresh("stream") EXCEPT !.peer = Head(Sock!System(o).waiting)]]
        /\ hand' = hand \cup {d} /\ Sock!Answer("Accept", o, d, Head(Sock!System(o).waiting))
    BY <1>3, <2>1 DEF Sock!Accept
  <2>8. socket' = [socket EXCEPT ![h] = t, ![d] = s]
    BY <2>1, <2>2, <2>5, <2>6, <2>7 DEF Sock!System
  <2>9. IsSocket(s) /\ IsSocket(t)
    BY <2>3, <2>5, <2>6, Opened, Changed
  <2>10. HandleInv'
    BY <1>1, <2>3, <2>4, <2>7, <2>8, <2>9, HandsOut
  <2>11. told' = <<"Accept", w, d, a>>
    BY <1>2, <1>3, <2>1, <2>7 DEF Sock!Answer
  <2>12. d \in Int /\ ~(d < 0)
    BY <2>4, Descriptor
  <2>13. Sock!AnswersRight'
    BY <2>1, <2>11, <2>12, Answered
  <2> QED
    BY <2>10, <2>13
<1>4. CASE ~(Sock!IsValid(o) /\ Sock!System(o).listening /\ Sock!System(o).waiting # <<>> /\ Sock!Free # {})
  <2>1. Sock!Answer("Accept", o, -1, Sock!NoSockAddr) /\ UNCHANGED <<socket, hand>>
    BY <1>4 DEF Sock!Accept
  <2>2. told' = <<"Accept", w, -1, Sock!NoSockAddr>>
    BY <1>2, <2>1 DEF Sock!Answer
  <2>3. Sock!AnswersRight'
    BY <2>2, Answered
  <2> QED
    BY <1>1, <2>1, <2>3, NothingChanges
<1> QED
  BY <1>3, <1>4

(* Every step.                                                             *)
LEMMA SocketsStep ==
    ASSUME Sock!SocketBounds, HandleInv, Sock!AnswersRight, [Sock!Next]_Sock!vars
    PROVE  HandleInv' /\ Sock!AnswersRight'
<1>1. CASE UNCHANGED Sock!vars
  <2>1. UNCHANGED <<living, m_hSocket, hand, socket, told>>
    BY <1>1 DEF Sock!vars
  <2>2. Sock!AnswersRight'
    BY <2>1 DEF Sock!AnswersRight, Sock!OfSystem, Sock!IsValid
  <2> QED
    BY <2>1, <2>2, NothingChanges
<1>2. ASSUME NEW o \in Obj,
             \/ Sock!Construct(o) \/ Sock!Detach(o) \/ Sock!Close(o) \/ Sock!Destroy(o)
             \/ \E type \in {"datagram", "stream"} : Sock!Create(o, type)
             \/ \E s \in hand : Sock!ConstructFrom(o, s) \/ Sock!Attach(o, s)
             \/ Sock!Listen(o) \/ Sock!Shutdown(o) \/ Sock!RecvFrom(o) \/ Sock!Accept(o)
             \/ Sock!Send(o) \/ Sock!GetPeerName(o) \/ Sock!GetSockName(o)
             \/ \E ip \in Sock!Text, port \in Port : Sock!Bind(o, ip, port) \/ Sock!Connect(o, ip, port) \/ Sock!SendTo(o, ip, port)
             \/ \E b \in BOOLEAN : Sock!IoBlocked(o, b) \/ Sock!ReuseAddr(o, b)
             \/ \E sz \in Sizes : Sock!SetRecvBufSize(o, sz) \/ Sock!SetSendBufSize(o, sz)
             \/ \E ms \in Milliseconds : Sock!SetRecvTimeout(o, ms) \/ Sock!SetSendTimeout(o, ms)
             \/ \E ip \in Ip \cup {BAD}, local \in Sock!Text : Sock!AddMembership(o, ip, local) \/ Sock!DropMembership(o, ip, local)
      PROVE  HandleInv' /\ Sock!AnswersRight'
  <2>1. CASE \/ Sock!Construct(o) \/ Sock!Detach(o) \/ Sock!Close(o) \/ Sock!Destroy(o)
             \/ \E type \in {"datagram", "stream"} : Sock!Create(o, type)
             \/ \E s \in hand : Sock!ConstructFrom(o, s) \/ Sock!Attach(o, s)
    BY <2>1, ObjectSteps
  <2>2. CASE \/ Sock!Listen(o) \/ Sock!Send(o) \/ Sock!GetPeerName(o) \/ Sock!GetSockName(o)
             \/ \E ip \in Sock!Text, port \in Port : Sock!Bind(o, ip, port) \/ Sock!Connect(o, ip, port) \/ Sock!SendTo(o, ip, port)
             \/ \E b \in BOOLEAN : Sock!IoBlocked(o, b) \/ Sock!ReuseAddr(o, b)
             \/ \E sz \in Sizes : Sock!SetRecvBufSize(o, sz) \/ Sock!SetSendBufSize(o, sz)
             \/ \E ip \in Ip \cup {BAD}, local \in Sock!Text : Sock!AddMembership(o, ip, local) \/ Sock!DropMembership(o, ip, local)
    BY <2>2, CallSteps
  <2>3. CASE \E ms \in Milliseconds : Sock!SetRecvTimeout(o, ms) \/ Sock!SetSendTimeout(o, ms)
    <3>1. PICK ms \in Int : Sock!SetRecvTimeout(o, ms) \/ Sock!SetSendTimeout(o, ms)
      BY <2>3 DEF Sock!SocketBounds
    <3> QED
      BY <3>1, TimeoutSteps
  <2>4. CASE Sock!Shutdown(o)
    BY <2>4, ShutdownStep
  <2>5. CASE Sock!RecvFrom(o)
    BY <2>5, RecvFromStep
  <2>6. CASE Sock!Accept(o)
    BY <2>6, AcceptStep
  <2> QED
    BY <1>2, <2>1, <2>2, <2>3, <2>4, <2>5, <2>6
<1>3. ASSUME NEW d \in Sock!FD, NEW ip \in Ip, NEW port \in Port, Sock!Arrive(d, ip, port) PROVE HandleInv' /\ Sock!AnswersRight'
  BY <1>3, ArriveStep
<1>4. CASE Sock!Next
  BY <1>2, <1>3, <1>4, Zenon DEF Sock!Next
<1> QED
  BY <1>1, <1>4

-----------------------------------------------------------------------------
(* What the invariant says of the descriptors.                             *)
LEMMA OneHolds == Sock!SocketBounds /\ HandleInv => Sock!OneHolder /\ Sock!DeadHoldNothing
<1> SUFFICES ASSUME Sock!SocketBounds, HandleInv PROVE Sock!OneHolder /\ Sock!DeadHoldNothing
  OBVIOUS
<1>1. ASSUME NEW d \in Sock!FD
      PROVE  Cardinality(Sock!Holders(d)) + (IF d \in hand THEN 1 ELSE 0) = IF socket[d] = Sock!CLOSED THEN 0 ELSE 1
  <2>1. d # Sock!INVALID_SOCKET /\ (socket[d] = Sock!CLOSED <=> ~Held(d))
    BY Descriptor, NotClosed DEF HandleInv
  <2>2. CASE \E o \in Obj : m_hSocket[o] = d
    <3>1. PICK o \in Obj : m_hSocket[o] = d
      BY <2>2
    <3>2. Sock!Holders(d) = {o} /\ d \notin hand /\ Held(d)
      BY <2>1, <3>1 DEF HandleInv, Sock!Holders, Held
    <3>3. Cardinality(Sock!Holders(d)) = 1
      BY <3>2, FS_Singleton
    <3> QED
      BY <2>1, <3>2, <3>3
  <2>3. CASE ~ \E o \in Obj : m_hSocket[o] = d
    <3>1. Sock!Holders(d) = {} /\ (d \in hand <=> Held(d))
      BY <2>3 DEF HandleInv, Sock!Holders, Held
    <3>2. Cardinality(Sock!Holders(d)) = 0
      BY <3>1, FS_EmptySet
    <3> QED
      BY <2>1, <3>1, <3>2
  <2> QED
    BY <2>2, <2>3
<1> QED
  BY <1>1, SameCardinality DEF Sock!OneHolder, Sock!DeadHoldNothing, HandleInv, Sock!IsValid

LEMMA PortIs ==
    ASSUME Sock!AddressConstants, NEW port \in Port
    PROVE  Sock!ntohs(Sock!htons(port)) = port
<1>1. PICK n \in Int : n > 0 /\ n = BYTE
  BY DEF Sock!AddressConstants
<1>2. port \in Int
  BY DEF Sock!AddressConstants
<1>3. PICK q \in Int, r \in Int : q = port \div n /\ r = port % n /\ port = q * n + r
  BY <1>1, <1>2
<1>4. Sock!htons(port) = <<q, r>>
  BY <1>1, <1>3 DEF Sock!htons
<1> QED
  BY <1>1, <1>3, <1>4 DEF Sock!ntohs

LEMMA TextsDiffer ==
    ASSUME Sock!AddressConstants
    PROVE  ANY # EMPTY /\ BAD # EMPTY /\ BAD # ANY /\ ANY \notin Ip /\ EMPTY \notin Ip /\ BAD \notin Ip
<1>1. ANY \notin Ip /\ EMPTY \notin Ip /\ BAD \notin Ip
  BY DEF Sock!AddressConstants
<1>2. \A x, y, z : Cardinality({x, y, z}) # 4
  <2> TAKE x, y, z
  <2>1. IsFiniteSet({}) /\ Cardinality({}) = 0
    BY FS_EmptySet
  <2>2. IsFiniteSet({x}) /\ Cardinality({x}) = 1
    BY FS_Singleton
  <2>3. IsFiniteSet({x} \cup {y}) /\ Cardinality({x} \cup {y}) \in {1, 2}
    BY <2>2, FS_AddElement
  <2>4. IsFiniteSet(({x} \cup {y}) \cup {z}) /\ Cardinality(({x} \cup {y}) \cup {z}) \in {1, 2, 3}
    BY <2>3, FS_AddElement
  <2>5. ({x} \cup {y}) \cup {z} = {x, y, z}
    OBVIOUS
  <2> QED
    BY <2>4, <2>5
<1>3. Cardinality({ANY, NOIP, EMPTY, BAD}) = 4
  BY SameCardinality DEF Sock!AddressConstants
<1>4. ANY # EMPTY
  <2>1. ANY = EMPTY => {ANY, NOIP, EMPTY, BAD} = {ANY, NOIP, BAD}
    OBVIOUS
  <2> QED
    BY <1>2, <1>3, <2>1
<1>5. BAD # EMPTY
  <2>1. BAD = EMPTY => {ANY, NOIP, EMPTY, BAD} = {ANY, NOIP, BAD}
    OBVIOUS
  <2> QED
    BY <1>2, <1>3, <2>1
<1>6. BAD # ANY
  <2>1. BAD = ANY => {ANY, NOIP, EMPTY, BAD} = {ANY, NOIP, EMPTY}
    OBVIOUS
  <2> QED
    BY <1>2, <1>3, <2>1
<1> QED
  BY <1>1, <1>4, <1>5, <1>6

LEMMA AddressesAre == Sock!AddressConstants => Sock!AddressesRight
<1> SUFFICES ASSUME Sock!AddressConstants, NEW ip \in Sock!Text, NEW port \in Port, NEW a,
                    a = Sock!SetPort(Sock!SetIP(Sock!NoSockAddr, ip), port)
             PROVE  /\ a = Sock!SockAddr(ip, port) /\ Sock!GetPort(a) = port /\ Sock!NetworkPort(a) = port
                    /\ Sock!GetIP(a) = CASE ip \in Ip -> ip [] ip = EMPTY -> ANY [] ip = BAD -> NOIP
  BY DEF Sock!AddressesRight
<1>1. PICK num, b : num = Sock!IpOf(ip) /\ b = Sock!htons(port)
  OBVIOUS
<1>2. a = [sin_addr |-> num, sin_port |-> b]
  BY <1>1 DEF Sock!SetPort, Sock!SetIP, Sock!NoSockAddr
<1>3. a = Sock!SockAddr(ip, port)
  BY <1>1, <1>2 DEF Sock!SockAddr
<1>4. Sock!GetPort(a) = port /\ Sock!NetworkPort(a) = port
  BY <1>1, <1>2, PortIs DEF Sock!GetPort, Sock!NetworkPort, Sock!ntohs
<1>5. num = CASE ip \in Ip -> ip [] ip = EMPTY -> ANY [] ip = BAD -> NOIP
  BY <1>1, TextsDiffer DEF Sock!IpOf, Sock!inet_addr, Sock!Text
<1>6. Sock!GetIP(a) = num
  BY <1>2 DEF Sock!GetIP
<1> QED
  BY <1>3, <1>4, <1>5, <1>6

(* Socket and SockAddr: a descriptor has one holder, and what is told of an
   address is what it is (Socket.cpp).                                     *)
THEOREM SocketsSafe ==
    ASSUME Sock!AddressConstants, Sock!SocketBounds
    PROVE  Sock!Spec => [](Sock!OneHolder /\ Sock!DeadHoldNothing /\ Sock!AddressesRight /\ Sock!AnswersRight)
<1>1. Sock!Init => HandleInv /\ Sock!AnswersRight
  <2> SUFFICES ASSUME Sock!Init PROVE HandleInv /\ Sock!AnswersRight
    OBVIOUS
  <2>1. told[1] = "none"
    BY DEF Sock!Init
  <2> QED
    BY <2>1, SocketsInit DEF Sock!AnswersRight
<1>2. HandleInv /\ Sock!AnswersRight /\ [Sock!Next]_Sock!vars => (HandleInv /\ Sock!AnswersRight)'
  BY SocketsStep
<1>3. HandleInv => Sock!OneHolder /\ Sock!DeadHoldNothing
  BY OneHolds
<1>4. Sock!AddressesRight
  BY AddressesAre
<1> QED
  BY <1>1, <1>2, <1>3, <1>4, PTL DEF Sock!Spec

-----------------------------------------------------------------------------
(* The locks.  How often a kind of scope is in a stack of them.            *)
CountIn(s, kind) == Cardinality({k \in 1..Len(s) : s[k] = kind})

LEMMA CountIsNat ==
    ASSUME NEW s \in Seq(Threading!Scopes), NEW kind
    PROVE  /\ CountIn(s, kind) \in Nat
           /\ CountIn(s, kind) = 0 <=> kind \notin Threading!Range(s)
<1> DEFINE C == {k \in 1..Len(s) : s[k] = kind}
<1>1. IsFiniteSet(1..Len(s)) /\ C \subseteq 1..Len(s)
  BY FS_Interval
<1>2. IsFiniteSet(C)
  BY <1>1, FS_Subset
<1>3. Cardinality(C) \in Nat /\ (Cardinality(C) = 0 <=> C = {})
  BY <1>2, FS_CardinalityType, FS_EmptySet
<1>4. C = {} <=> kind \notin Threading!Range(s)
  BY DEF Threading!Range
<1> QED
  BY <1>3, <1>4 DEF CountIn

LEMMA CountAppend ==
    ASSUME NEW s \in Seq(Threading!Scopes), NEW x \in Threading!Scopes, NEW kind
    PROVE  CountIn(Append(s, x), kind) = CountIn(s, kind) + IF x = kind THEN 1 ELSE 0
<1> DEFINE C == {k \in 1..Len(s) : s[k] = kind}
<1> DEFINE t == Append(s, x)
<1> DEFINE D == {k \in 1..Len(t) : t[k] = kind}
<1>1. IsFiniteSet(1..Len(s)) /\ C \subseteq 1..Len(s)
  BY FS_Interval
<1>2. IsFiniteSet(C) /\ Cardinality(C) \in Nat
  BY <1>1, FS_Subset, FS_CardinalityType
<1>3. Len(t) = Len(s) + 1 /\ t[Len(s) + 1] = x /\ \A k \in 1..Len(s) : t[k] = s[k]
  OBVIOUS
<1> HIDE DEF t
<1>4. CASE x = kind
  <2>1. D = C \cup {Len(s) + 1} /\ Len(s) + 1 \notin C
    BY <1>3, <1>4
  <2> HIDE DEF C, D
  <2>2. Cardinality(D) = Cardinality(C) + 1
    BY <1>2, <2>1, FS_AddElement
  <2> QED
    BY <1>4, <2>2 DEF CountIn, C, D, t
<1>5. CASE x # kind
  <2>1. D = C
    <3>1. \A k \in 1..Len(t) : k \in 1..Len(s) \/ k = Len(s) + 1
      BY <1>3
    <3>2. \A k \in 1..Len(s) : k \in 1..Len(t)
      BY <1>3
    <3> QED
      BY <1>3, <1>5, <3>1, <3>2
  <2> HIDE DEF C, D
  <2>2. Cardinality(D) = Cardinality(C) + 0
    BY <1>2, <2>1
  <2> QED
    BY <1>5, <2>2 DEF CountIn, C, D, t
<1> QED
  BY <1>4, <1>5

ButLast(s) == SubSeq(s, 1, Len(s) - 1)
LastOf(s) == s[Len(s)]

LEMMA FrontAndLast ==
    ASSUME NEW s \in Seq(Threading!Scopes), s # <<>>
    PROVE  ButLast(s) \in Seq(Threading!Scopes) /\ LastOf(s) \in Threading!Scopes /\ s = Append(ButLast(s), LastOf(s))
BY DEF ButLast, LastOf

LEMMA CountFront ==
    ASSUME NEW s \in Seq(Threading!Scopes), s # <<>>, NEW kind
    PROVE  CountIn(s, kind) = CountIn(ButLast(s), kind) + IF LastOf(s) = kind THEN 1 ELSE 0
<1>1. ButLast(s) \in Seq(Threading!Scopes) /\ LastOf(s) \in Threading!Scopes /\ s = Append(ButLast(s), LastOf(s))
  BY FrontAndLast
<1>2. CountIn(Append(ButLast(s), LastOf(s)), kind) = CountIn(ButLast(s), kind) + IF LastOf(s) = kind THEN 1 ELSE 0
  BY <1>1, CountAppend
<1> QED
  BY <1>1, <1>2

-----------------------------------------------------------------------------
(* The invariant of the locks, user by user: each lock has been taken as
   often as there are scopes of it.                                         *)
HeldBy(u) == IF mutex.holder = u THEN mutex.count ELSE 0

OfUser(u) ==
    /\ readers[u] = CountIn(scopes[u], "read")
    /\ CountIn(scopes[u], "write") = IF writer = u THEN 1 ELSE 0
    /\ CountIn(scopes[u], "lock") = HeldBy(u)
    /\ asks[u] \in {"read", "write"} => CountIn(scopes[u], "write") = 0
    /\ asks[u] = "write" => CountIn(scopes[u], "read") = 0

LockTypes ==
    /\ scopes \in [User -> Seq(Threading!Scopes)] /\ asks \in [User -> Threading!Scopes \cup {NONE}]
    /\ readers \in [User -> Nat] /\ writer \in User \cup {NONE}
    /\ mutex \in [holder : User \cup {NONE}, count : Nat]
    /\ mutex.holder = NONE <=> mutex.count = 0

LocksInv ==
    /\ LockTypes
    /\ \A u \in User : OfUser(u)
    /\ writer # NONE => \A u \in User : readers[u] = 0

(* What a step leaves alone of another user.                               *)
Untouched(v) ==
    /\ UNCHANGED <<scopes[v], asks[v], readers[v]>>
    /\ (writer' = v) <=> (writer = v)
    /\ HeldBy(v)' = HeldBy(v)

LEMMA OneUser ==
    ASSUME \A u \in User : OfUser(u), NEW u \in User, OfUser(u)', \A v \in User \ {u} : Untouched(v)
    PROVE  \A v \in User : OfUser(v)'
<1> SUFFICES ASSUME NEW v \in User, v # u PROVE OfUser(v)'
  OBVIOUS
<1>1. OfUser(v) /\ Untouched(v)
  OBVIOUS
<1> QED
  BY <1>1 DEF OfUser, Untouched

(* A user goes into a scope of that kind, for which it has the lock.       *)
LEMMA Entering ==
    ASSUME Threading!ThreadConstants, LocksInv, NEW u \in User, NEW kind \in Threading!Scopes,
           scopes' = [scopes EXCEPT ![u] = Append(@, kind)], asks' \in [User -> Threading!Scopes \cup {NONE}],
           asks'[u] = NONE, \A v \in User \ {u} : asks'[v] = asks[v],
           kind \in {"read", "write"} => CountIn(scopes[u], "write") = 0,
           kind = "write" => CountIn(scopes[u], "read") = 0,
           \/ kind = "lock" /\ Threading!MayLock(u) /\ Threading!Lock(u)
           \/ kind = "read" /\ Threading!MayRead(u) /\ Threading!rlock(u)
           \/ kind = "write" /\ Threading!MayWrite(u) /\ Threading!wlock(u)
           \/ kind = "null" /\ UNCHANGED <<mutex, readers, writer>>
    PROVE  LocksInv'
<1>1. NONE \notin User /\ NONE \notin {"read", "write"}
  BY DEF Threading!ThreadConstants, Threading!Scopes
<1>2. LockTypes /\ OfUser(u)
  BY DEF LocksInv
<1>3. /\ scopes' \in [User -> Seq(Threading!Scopes)] /\ scopes'[u] = Append(scopes[u], kind)
      /\ \A v \in User \ {u} : scopes'[v] = scopes[v] /\ asks'[v] = asks[v]
  <2>1. scopes \in [User -> Seq(Threading!Scopes)] /\ scopes[u] \in Seq(Threading!Scopes)
    BY <1>2 DEF LockTypes
  <2>2. Append(scopes[u], kind) \in Seq(Threading!Scopes)
    BY <2>1
  <2> QED
    BY <2>1, <2>2
<1>4. /\ CountIn(scopes'[u], "read") = CountIn(scopes[u], "read") + IF kind = "read" THEN 1 ELSE 0
      /\ CountIn(scopes'[u], "write") = CountIn(scopes[u], "write") + IF kind = "write" THEN 1 ELSE 0
      /\ CountIn(scopes'[u], "lock") = CountIn(scopes[u], "lock") + IF kind = "lock" THEN 1 ELSE 0
      /\ CountIn(scopes[u], "read") \in Nat /\ CountIn(scopes[u], "write") \in Nat /\ CountIn(scopes[u], "lock") \in Nat
  <2>1. scopes[u] \in Seq(Threading!Scopes)
    BY <1>2 DEF LockTypes
  <2>2. \A any : CountIn(Append(scopes[u], kind), any) = CountIn(scopes[u], any) + IF kind = any THEN 1 ELSE 0
    BY <2>1, CountAppend
  <2>3. \A any : CountIn(scopes[u], any) \in Nat
    BY <2>1, CountIsNat
  <2> QED
    BY <1>3, <2>2, <2>3
<1>5. CASE kind = "lock"
  <2>1. /\ mutex' = [holder |-> u, count |-> mutex.count + 1] /\ UNCHANGED <<readers, writer>>
        /\ mutex.holder \in {u, NONE} /\ mutex.count \in Nat /\ (mutex.holder = NONE => mutex.count = 0)
    BY <1>2, <1>5 DEF Threading!Lock, Threading!MayLock, LockTypes
  <2>2. LockTypes'
    BY <1>1, <1>2, <1>3, <2>1 DEF LockTypes
  <2>3. OfUser(u)'
    BY <1>1, <1>2, <1>4, <1>5, <2>1 DEF OfUser, HeldBy
  <2>4. \A v \in User \ {u} : Untouched(v)
    BY <1>1, <1>3, <2>1 DEF Untouched, HeldBy
  <2> QED
    BY <2>1, <2>2, <2>3, <2>4, OneUser DEF LocksInv
<1>6. CASE kind = "read"
  <2>1. readers' = [readers EXCEPT ![u] = @ + 1] /\ UNCHANGED <<mutex, writer>> /\ writer = NONE /\ readers \in [User -> Nat]
    BY <1>2, <1>6 DEF Threading!MayRead, Threading!rlock, LockTypes
  <2>2. LockTypes'
    BY <1>2, <1>3, <2>1 DEF LockTypes
  <2>3. OfUser(u)'
    BY <1>1, <1>2, <1>4, <1>6, <2>1 DEF OfUser, HeldBy
  <2>4. \A v \in User \ {u} : Untouched(v)
    BY <1>3, <2>1 DEF Untouched, HeldBy
  <2> QED
    BY <2>1, <2>2, <2>3, <2>4, OneUser DEF LocksInv
<1>7. CASE kind = "write"
  <2>1. writer' = u /\ UNCHANGED <<mutex, readers>> /\ writer = NONE /\ \A v \in User : readers[v] = 0
    BY <1>7 DEF Threading!MayWrite, Threading!wlock
  <2>2. LockTypes'
    BY <1>2, <1>3, <2>1 DEF LockTypes
  <2>3. OfUser(u)'
    BY <1>1, <1>2, <1>4, <1>7, <2>1 DEF OfUser, HeldBy
  <2>4. \A v \in User \ {u} : Untouched(v)
    BY <1>1, <1>3, <2>1 DEF Untouched, HeldBy
  <2> QED
    BY <2>1, <2>2, <2>3, <2>4, OneUser DEF LocksInv
<1>8. CASE kind = "null"
  <2>1. UNCHANGED <<mutex, readers, writer>>
    BY <1>8
  <2>2. LockTypes'
    BY <1>2, <1>3, <2>1 DEF LockTypes
  <2>3. OfUser(u)'
    BY <1>1, <1>2, <1>4, <1>8, <2>1 DEF OfUser, HeldBy
  <2>4. \A v \in User \ {u} : Untouched(v)
    BY <1>3, <2>1 DEF Untouched, HeldBy
  <2> QED
    BY <2>1, <2>2, <2>3, <2>4, OneUser DEF LocksInv
<1> QED
  BY <1>5, <1>6, <1>7, <1>8 DEF Threading!Scopes

(* A scope ends, the innermost first, and gives back what it took.         *)
LEMMA Leaving ==
    ASSUME Threading!ThreadConstants, LocksInv, NEW u \in User, Threading!Leave(u)
    PROVE  LocksInv'
<1>1. NONE \notin User /\ NONE \notin {"read", "write"}
  BY DEF Threading!ThreadConstants, Threading!Scopes
<1>2. LockTypes /\ OfUser(u)
  BY DEF LocksInv
<1>3. /\ asks' = asks /\ asks[u] = NONE /\ scopes[u] \in Seq(Threading!Scopes) /\ scopes[u] # <<>>
      /\ scopes' = [scopes EXCEPT ![u] = ButLast(@)]
  BY <1>2 DEF Threading!Leave, LockTypes, ButLast
<1>4. PICK kind \in Threading!Scopes : kind = LastOf(scopes[u]) /\ ButLast(scopes[u]) \in Seq(Threading!Scopes)
  BY <1>3, FrontAndLast
<1>5. /\ scopes' \in [User -> Seq(Threading!Scopes)] /\ scopes'[u] = ButLast(scopes[u])
      /\ \A v \in User \ {u} : scopes'[v] = scopes[v] /\ asks'[v] = asks[v]
  BY <1>2, <1>3, <1>4 DEF LockTypes
<1>6. /\ CountIn(scopes[u], "read") = CountIn(scopes'[u], "read") + IF kind = "read" THEN 1 ELSE 0
      /\ CountIn(scopes[u], "write") = CountIn(scopes'[u], "write") + IF kind = "write" THEN 1 ELSE 0
      /\ CountIn(scopes[u], "lock") = CountIn(scopes'[u], "lock") + IF kind = "lock" THEN 1 ELSE 0
      /\ CountIn(scopes'[u], "read") \in Nat /\ CountIn(scopes'[u], "write") \in Nat /\ CountIn(scopes'[u], "lock") \in Nat
  BY <1>3, <1>4, <1>5, CountFront, CountIsNat
<1>7. CASE kind = "lock"
  <2>1. Threading!Unlock(u) /\ mutex.holder = u /\ mutex.count \in Nat \ {0}
    BY <1>2, <1>4, <1>6, <1>7 DEF LastOf, Threading!Innermost, Threading!Leave, OfUser, HeldBy, LockTypes
  <2>2. /\ UNCHANGED <<readers, writer>>
        /\ mutex' = IF mutex.count = 1 THEN Threading!FREE ELSE [mutex EXCEPT !.count = @ - 1]
    BY <2>1 DEF Threading!Unlock
  <2>3. /\ mutex' \in [holder : User \cup {NONE}, count : Nat] /\ mutex'.count = mutex.count - 1
        /\ mutex'.holder = IF mutex.count = 1 THEN NONE ELSE u
    BY <1>2, <2>1, <2>2 DEF Threading!FREE, LockTypes
  <2>4. LockTypes'
    BY <1>1, <1>2, <1>3, <1>5, <2>1, <2>2, <2>3 DEF LockTypes
  <2>5. OfUser(u)'
    BY <1>1, <1>2, <1>3, <1>6, <1>7, <2>1, <2>2, <2>3 DEF OfUser, HeldBy
  <2>6. \A v \in User \ {u} : Untouched(v)
    BY <1>1, <1>5, <2>1, <2>2, <2>3 DEF Untouched, HeldBy
  <2> QED
    BY <2>2, <2>4, <2>5, <2>6, OneUser DEF LocksInv
<1>8. CASE kind = "read"
  <2>0. readers[u] \in Nat \ {0}
    BY <1>2, <1>6, <1>8 DEF OfUser
  <2>1. Threading!unlock(u) /\ writer # u /\ readers[u] \in Nat \ {0}
    BY <1>1, <1>4, <1>8, <2>0 DEF LastOf, Threading!Innermost, Threading!Leave, LocksInv
  <2>2. UNCHANGED <<mutex, writer>> /\ readers' = [readers EXCEPT ![u] = @ - 1] /\ writer = NONE
    BY <1>2, <2>1 DEF Threading!unlock, LocksInv, LockTypes
  <2>3. LockTypes'
    BY <1>2, <1>3, <1>5, <2>1, <2>2 DEF LockTypes
  <2>4. OfUser(u)'
    BY <1>1, <1>2, <1>3, <1>6, <1>8, <2>1, <2>2 DEF OfUser, HeldBy, LockTypes
  <2>5. \A v \in User \ {u} : Untouched(v)
    BY <1>2, <1>5, <2>2 DEF Untouched, HeldBy, LockTypes
  <2> QED
    BY <2>2, <2>3, <2>4, <2>5, OneUser DEF LocksInv
<1>9. CASE kind = "write"
  <2>1. Threading!unlock(u) /\ writer = u
    BY <1>2, <1>4, <1>6, <1>9 DEF LastOf, Threading!Innermost, Threading!Leave, OfUser
  <2>2. UNCHANGED <<mutex, readers>> /\ writer' = NONE
    BY <2>1 DEF Threading!unlock
  <2>3. LockTypes'
    BY <1>2, <1>3, <1>5, <2>2 DEF LockTypes
  <2>4. OfUser(u)'
    BY <1>1, <1>2, <1>3, <1>6, <1>9, <2>1, <2>2 DEF OfUser, HeldBy
  <2>5. \A v \in User \ {u} : Untouched(v)
    BY <1>1, <1>5, <2>1, <2>2 DEF Untouched, HeldBy
  <2> QED
    BY <2>2, <2>3, <2>4, <2>5, OneUser DEF LocksInv
<1>10. CASE kind = "null"
  <2>1. UNCHANGED <<mutex, readers, writer>>
    BY <1>4, <1>10 DEF LastOf, Threading!Innermost, Threading!Leave
  <2>2. LockTypes'
    BY <1>2, <1>3, <1>5, <2>1 DEF LockTypes
  <2>3. OfUser(u)'
    BY <1>1, <1>2, <1>3, <1>6, <1>10, <2>1 DEF OfUser, HeldBy
  <2>4. \A v \in User \ {u} : Untouched(v)
    BY <1>5, <2>1 DEF Untouched, HeldBy
  <2> QED
    BY <2>1, <2>2, <2>3, <2>4, OneUser DEF LocksInv
<1> QED
  BY <1>7, <1>8, <1>9, <1>10 DEF Threading!Scopes

LEMMA LocksStep ==
    ASSUME Threading!ThreadConstants, LocksInv, [Threading!Next]_Threading!vars
    PROVE  LocksInv'
<1>1. \A u \in User : \A kind : Threading!Has(u, kind) <=> CountIn(scopes[u], kind) # 0
  BY CountIsNat DEF Threading!Has, LocksInv, LockTypes
<1>2. LockTypes /\ \A u \in User : OfUser(u)
  BY DEF LocksInv
<1>3. ASSUME NEW u \in User, NEW kind \in Threading!Scopes, Threading!Ask(u, kind) PROVE LocksInv'
  <2>1. asks' = [asks EXCEPT ![u] = kind] /\ UNCHANGED <<mutex, readers, writer, scopes>> /\ Threading!MayAsk(u, kind)
    BY <1>3 DEF Threading!Ask
  <2>2. /\ kind \in {"read", "write"} => CountIn(scopes[u], "write") = 0
        /\ kind = "write" => CountIn(scopes[u], "read") = 0
    BY <1>1, <2>1 DEF Threading!MayAsk
  <2>3. LockTypes' /\ asks'[u] = kind
    BY <1>2, <2>1 DEF LockTypes
  <2>4. OfUser(u)' /\ \A v \in User \ {u} : Untouched(v)
    BY <1>2, <2>1, <2>2, <2>3 DEF OfUser, Untouched, HeldBy, LockTypes
  <2> QED
    BY <1>2, <2>1, <2>3, <2>4, OneUser DEF LocksInv
<1>5. ASSUME NEW u \in User, Threading!Enter(u) PROVE LocksInv'
  <2>1. asks[u] \in Threading!Scopes /\ asks' = [asks EXCEPT ![u] = NONE] /\ asks \in [User -> Threading!Scopes \cup {NONE}]
    BY <1>2, <1>5 DEF Threading!Enter, Threading!Scopes, LockTypes
  <2>2. /\ asks' \in [User -> Threading!Scopes \cup {NONE}] /\ asks'[u] = NONE /\ \A v \in User \ {u} : asks'[v] = asks[v]
        /\ asks[u] \in {"read", "write"} => CountIn(scopes[u], "write") = 0
        /\ asks[u] = "write" => CountIn(scopes[u], "read") = 0
    BY <1>2, <2>1 DEF OfUser
  <2>3. /\ scopes' = [scopes EXCEPT ![u] = Append(@, asks[u])]
        /\ \/ asks[u] = "lock" /\ Threading!MayLock(u) /\ Threading!Lock(u)
           \/ asks[u] = "read" /\ Threading!MayRead(u) /\ Threading!rlock(u)
           \/ asks[u] = "write" /\ Threading!MayWrite(u) /\ Threading!wlock(u)
           \/ asks[u] = "null" /\ UNCHANGED <<mutex, readers, writer>>
    BY <1>5 DEF Threading!Enter, Threading!AutoRWLock
  <2> QED
    BY <2>1, <2>2, <2>3, Entering
<1>6. ASSUME NEW u \in User, NEW kind \in {"read", "write"}, Threading!Try(u, kind) PROVE LocksInv'
  <2>1. asks' = asks /\ asks[u] = NONE /\ kind \in Threading!Scopes /\ asks \in [User -> Threading!Scopes \cup {NONE}]
    BY <1>2, <1>6 DEF Threading!Try, Threading!Scopes, LockTypes
  <2>2. /\ kind \in {"read", "write"} => CountIn(scopes[u], "write") = 0
        /\ kind = "write" => CountIn(scopes[u], "read") = 0
    BY <1>1, <1>6 DEF Threading!Try, Threading!MayAsk
  <2>3. /\ scopes' = [scopes EXCEPT ![u] = Append(@, kind)]
        /\ \/ kind = "read" /\ Threading!MayRead(u) /\ Threading!rlock(u)
           \/ kind = "write" /\ Threading!MayWrite(u) /\ Threading!wlock(u)
    BY <1>6 DEF Threading!Try
  <2> QED
    BY <2>1, <2>2, <2>3, Entering
<1>7. CASE Threading!Run \/ Threading!Routine \/ Threading!Join \/ Threading!Joined \/ UNCHANGED Threading!vars
  <2>1. UNCHANGED Threading!lockVars
    BY <1>7 DEF Threading!Run, Threading!Routine, Threading!Join, Threading!Joined, Threading!vars
  <2> QED
    BY <2>1 DEF Threading!lockVars, LocksInv, LockTypes, OfUser, HeldBy
<1> QED
  BY <1>3, <1>5, <1>6, <1>7, Leaving DEF Threading!Next

(* Scopes that lock exclude one another, and when the last of them has ended
   the lock is free, for any number of threads and scopes within one another
   (Thread.cpp:9-110).                                                      *)
THEOREM LocksExclude ==
    ASSUME Threading!ThreadConstants
    PROVE  Threading!Spec => [](Threading!ScopesExclude /\ Threading!LocksAreScopes)
<1>1. Threading!Init => LocksInv
  <2> SUFFICES ASSUME Threading!Init PROVE LocksInv
    OBVIOUS
  <2>1. LockTypes /\ \A u \in User : scopes[u] = <<>> /\ readers[u] = 0 /\ asks[u] = NONE
    BY DEF Threading!Init, LockTypes, Threading!FREE
  <2>2. \A kind : CountIn(<<>>, kind) = 0
    <3>1. <<>> \in Seq(Threading!Scopes) /\ Threading!Range(<<>>) = {}
      BY DEF Threading!Range
    <3> QED
      BY <3>1, CountIsNat
  <2>3. \A u \in User : OfUser(u)
    BY <2>1, <2>2 DEF Threading!Init, OfUser, HeldBy, Threading!FREE, Threading!ThreadConstants
  <2> QED
    BY <2>1, <2>3 DEF LocksInv, Threading!Init
<1>2. LocksInv => Threading!ScopesExclude /\ Threading!LocksAreScopes
  <2> SUFFICES ASSUME LocksInv PROVE Threading!ScopesExclude /\ Threading!LocksAreScopes
    OBVIOUS
  <2>0. \A u \in User : \A kind : Threading!Count(u, kind) = CountIn(scopes[u], kind)
    BY SameCardinality DEF Threading!Count, CountIn
  <2>1. \A u \in User : \A kind : (Threading!Has(u, kind) <=> CountIn(scopes[u], kind) # 0) /\ CountIn(scopes[u], kind) \in Nat
    BY CountIsNat DEF Threading!Has, LocksInv, LockTypes
  <2>4. \A u \in User : OfUser(u)
    BY DEF LocksInv
  <2>2. Threading!ScopesExclude
    <3>1. \A u \in User : /\ Threading!Has(u, "lock") => mutex.holder = u
                          /\ Threading!Has(u, "write") => writer = u
                          /\ Threading!Has(u, "read") => readers[u] # 0
      <4> TAKE u \in User
      <4>1. /\ readers[u] = CountIn(scopes[u], "read")
            /\ CountIn(scopes[u], "write") = IF writer = u THEN 1 ELSE 0
            /\ CountIn(scopes[u], "lock") = IF mutex.holder = u THEN mutex.count ELSE 0
        BY <2>4 DEF OfUser, HeldBy
      <4> HIDE DEF CountIn, Threading!Has
      <4> QED
        BY <2>1, <4>1
    <3>2. \A u, v \in User : u # v => ~(Threading!Has(u, "lock") /\ Threading!Has(v, "lock"))
      BY <3>1 DEF Threading!Has
    <3>3. \A u, v \in User : u # v => ~(Threading!Has(u, "write") /\ (Threading!Has(v, "read") \/ Threading!Has(v, "write")))
      <4>1. ASSUME NEW u \in User, writer = u PROVE \A v \in User : readers[v] = 0
        BY <4>1 DEF LocksInv, Threading!ThreadConstants
      <4> QED
        BY <3>1, <4>1 DEF Threading!Has
    <3>4. \A u \in User : Threading!Has(u, "lock") => Threading!MayLock(u)
      BY <3>1 DEF Threading!MayLock, Threading!Has
    <3> QED
      BY <3>2, <3>3, <3>4 DEF Threading!ScopesExclude
  <2>3. Threading!LocksAreScopes
    BY <2>0, <2>1, <2>4 DEF Threading!LocksAreScopes, OfUser, HeldBy
  <2> QED
    BY <2>2, <2>3
<1> QED
  BY <1>1, <1>2, LocksStep, PTL DEF Threading!Spec

-----------------------------------------------------------------------------
(* The Thread: its handle, when it has one, is that of the one run that has
   not been joined, or of a thread that could not be made.                 *)
RunInv ==
    /\ runs \in Nat /\ m_hThread \in Int /\ m_hThread >= -1 /\ m_hThread <= runs
    /\ m_hThread > 0 => unjoined = {m_hThread}
    /\ m_hThread <= 0 => unjoined = {}
    /\ alive \subseteq unjoined
    /\ m_hThread = -1 => failed = TRUE
    /\ pc \in {"idle", "join", "crashed"}
    /\ pc = "crashed" => m_hThread = -1
    /\ pc = "join" => m_hThread > 0

(* A Thread never runs two Routines, and one whose handle is gone has been
   joined, however often it is run again (Thread.cpp:131-176).             *)
THEOREM RunsAreJoined ==
    Threading!Spec => []Threading!JoinedBeforeRun
<1>1. Threading!Init => RunInv
  BY DEF Threading!Init, RunInv
<1>2. ASSUME RunInv, [Threading!Next]_Threading!vars PROVE RunInv'
  <2>1. CASE Threading!Run
    <3>1. runs' = runs + 1 /\ pc' = pc /\ pc = "idle" /\ runs \in Nat
      BY <1>2, <2>1 DEF Threading!Run, RunInv
    <3>2. CASE m_hThread # 0 /\ UNCHANGED <<m_hThread, alive, unjoined, failed>>
      BY <1>2, <3>1, <3>2 DEF RunInv
    <3>3. CASE m_hThread = 0 /\ m_hThread' = runs' /\ alive' = alive \cup {runs'} /\ unjoined' = unjoined \cup {runs'}
      BY <1>2, <3>1, <3>3 DEF RunInv
    <3>4. CASE m_hThread = 0 /\ failed' = TRUE /\ m_hThread' \in {0, -1} /\ UNCHANGED <<alive, unjoined>>
      BY <1>2, <3>1, <3>4 DEF RunInv
    <3> QED
      BY <2>1, <3>2, <3>3, <3>4 DEF Threading!Run
  <2>2. CASE Threading!Routine
    BY <1>2, <2>2 DEF Threading!Routine, RunInv
  <2>3. CASE Threading!Join
    BY <1>2, <2>3 DEF Threading!Join, RunInv
  <2>4. CASE Threading!Joined
    BY <1>2, <2>4 DEF Threading!Joined, RunInv
  <2>5. ASSUME UNCHANGED Threading!threadVars PROVE RunInv'
    BY <1>2, <2>5 DEF Threading!threadVars, RunInv
  <2> QED
    BY <1>2, <2>1, <2>2, <2>3, <2>4, <2>5 DEF Threading!Next, Threading!Ask, Threading!Try, Threading!Enter,
       Threading!Leave, Threading!vars
<1>3. RunInv => Threading!JoinedBeforeRun
  <2> SUFFICES ASSUME RunInv PROVE Threading!JoinedBeforeRun
    OBVIOUS
  <2>1. alive = {} \/ alive = {m_hThread}
    BY DEF RunInv
  <2>2. Cardinality(alive) <= 1
    <3>1. Cardinality({}) = 0 /\ Cardinality({m_hThread}) = 1
      BY FS_EmptySet, FS_Singleton
    <3> QED
      BY <2>1, <3>1
  <2> QED
    BY <2>2, SameCardinality DEF RunInv, Threading!JoinedBeforeRun
<1> QED
  BY <1>1, <1>2, <1>3, PTL DEF Threading!Spec

-----------------------------------------------------------------------------
(* From a class to the model of them all: a behaviour is one client's.     *)
Of(c) == client = c

LEMMA SameClient == ASSUME NEW c, [Next]_vars PROVE Of(c) <=> Of(c)'
<1>1. client' = client
  BY DEF Next, vars, RedisStep, ConsumerStep, ProducerStep, HttpStep, SystemStep, SingletonStep, SocketStep,
         ThreadStep
<1> QED
  BY <1>1 DEF Of

LEMMA RedisOnly ==
    /\ Init => (Of("redis") => Redis!Init)
    /\ Of("redis") /\ [Next]_vars => [Redis!Next]_Redis!vars
<1>1. Init => (Of("redis") => Redis!Init)
  BY DEF Init, Of
<1>2. Of("redis") /\ Next => Redis!Next
  BY DEF Next, Of, RedisStep, ConsumerStep, ProducerStep, HttpStep, SystemStep, SingletonStep, SocketStep,
         ThreadStep
<1>3. UNCHANGED vars => UNCHANGED Redis!vars
  BY DEF vars, publicOnly, baseOnly, redisOnly, consumerOnly, producerOnly, httpOnly, systemOnly, singletonOnly,
         socketOnly, threadOnly, Redis!vars, Redis!clientVars, Redis!serverVars
<1> QED
  BY <1>1, <1>2, <1>3

LEMMA ConsumerOnly ==
    /\ Init => (Of("consumer") => Consumer!Init)
    /\ Of("consumer") /\ [Next]_vars => [Consumer!Next]_Consumer!vars
<1>1. Init => (Of("consumer") => Consumer!Init)
  BY DEF Init, Of
<1>2. Of("consumer") /\ Next => Consumer!Next
  BY DEF Next, Of, RedisStep, ConsumerStep, ProducerStep, HttpStep, SystemStep, SingletonStep, SocketStep,
         ThreadStep
<1>3. UNCHANGED vars => UNCHANGED Consumer!vars
  BY DEF vars, publicOnly, baseOnly, redisOnly, consumerOnly, producerOnly, httpOnly, systemOnly, singletonOnly,
         socketOnly, threadOnly, Consumer!vars
<1> QED
  BY <1>1, <1>2, <1>3

LEMMA ProducerOnly ==
    /\ Init => (Of("producer") => Producer!Init)
    /\ Of("producer") /\ [Next]_vars => [Producer!Next]_Producer!vars
<1>1. Init => (Of("producer") => Producer!Init)
  BY DEF Init, Of
<1>2. Of("producer") /\ Next => Producer!Next
  BY DEF Next, Of, RedisStep, ConsumerStep, ProducerStep, HttpStep, SystemStep, SingletonStep, SocketStep,
         ThreadStep
<1>3. UNCHANGED vars => UNCHANGED Producer!vars
  BY DEF vars, publicOnly, baseOnly, redisOnly, consumerOnly, producerOnly, httpOnly, systemOnly, singletonOnly,
         socketOnly, threadOnly, Producer!vars
<1> QED
  BY <1>1, <1>2, <1>3

LEMMA HttpOnly ==
    /\ Init => (Of("http") => Http!Init)
    /\ Of("http") /\ [Next]_vars => [Http!Next]_Http!vars
<1>1. Init => (Of("http") => Http!Init)
  BY DEF Init, Of
<1>2. Of("http") /\ Next => Http!Next
  BY DEF Next, Of, RedisStep, ConsumerStep, ProducerStep, HttpStep, SystemStep, SingletonStep, SocketStep,
         ThreadStep
<1>3. UNCHANGED vars => UNCHANGED Http!vars
  BY DEF vars, publicOnly, baseOnly, redisOnly, consumerOnly, producerOnly, httpOnly, systemOnly, singletonOnly,
         socketOnly, threadOnly, Http!vars
<1> QED
  BY <1>1, <1>2, <1>3

LEMMA SystemOnly ==
    /\ Init => (Of("system") => System!Init)
    /\ Of("system") /\ [Next]_vars => [System!Next]_System!vars
<1>1. Init => (Of("system") => System!Init)
  BY DEF Init, Of
<1>2. Of("system") /\ Next => System!Next
  BY DEF Next, Of, RedisStep, ConsumerStep, ProducerStep, HttpStep, SystemStep, SingletonStep, SocketStep,
         ThreadStep
<1>3. UNCHANGED vars => UNCHANGED System!vars
  BY DEF vars, publicOnly, baseOnly, redisOnly, consumerOnly, producerOnly, httpOnly, systemOnly, singletonOnly,
         socketOnly, threadOnly, System!vars, System!cached
<1> QED
  BY <1>1, <1>2, <1>3

LEMMA SingletonOnly ==
    /\ Init => (Of("singleton") => Single!Init)
    /\ Of("singleton") /\ [Next]_vars => [Single!Next]_Single!vars
<1>1. Init => (Of("singleton") => Single!Init)
  BY DEF Init, Of
<1>2. Of("singleton") /\ Next => Single!Next
  BY DEF Next, Of, RedisStep, ConsumerStep, ProducerStep, HttpStep, SystemStep, SingletonStep, SocketStep,
         ThreadStep
<1>3. UNCHANGED vars => UNCHANGED Single!vars
  BY DEF vars, publicOnly, baseOnly, redisOnly, consumerOnly, producerOnly, httpOnly, systemOnly, singletonOnly,
         socketOnly, threadOnly, Single!vars
<1> QED
  BY <1>1, <1>2, <1>3

LEMMA SocketOnly ==
    /\ Init => (Of("socket") => Sock!Init)
    /\ Of("socket") /\ [Next]_vars => [Sock!Next]_Sock!vars
<1>1. Init => (Of("socket") => Sock!Init)
  BY DEF Init, Of
<1>2. Of("socket") /\ Next => Sock!Next
  BY DEF Next, Of, RedisStep, ConsumerStep, ProducerStep, HttpStep, SystemStep, SingletonStep, SocketStep,
         ThreadStep
<1>3. UNCHANGED vars => UNCHANGED Sock!vars
  BY DEF vars, publicOnly, baseOnly, redisOnly, consumerOnly, producerOnly, httpOnly, systemOnly, singletonOnly,
         socketOnly, threadOnly, Sock!vars
<1> QED
  BY <1>1, <1>2, <1>3

LEMMA ThreadOnly ==
    /\ Init => (Of("thread") => Threading!Init)
    /\ Of("thread") /\ [Next]_vars => [Threading!Next]_Threading!vars
<1>1. Init => (Of("thread") => Threading!Init)
  BY DEF Init, Of
<1>2. Of("thread") /\ Next => Threading!Next
  BY DEF Next, Of, RedisStep, ConsumerStep, ProducerStep, HttpStep, SystemStep, SingletonStep, SocketStep,
         ThreadStep
<1>3. UNCHANGED vars => UNCHANGED Threading!vars
  BY DEF vars, publicOnly, baseOnly, redisOnly, consumerOnly, producerOnly, httpOnly, systemOnly, singletonOnly,
         socketOnly, threadOnly, Threading!vars, Threading!lockVars, Threading!threadVars
<1> QED
  BY <1>1, <1>2, <1>3

(* What a Redis method returns is what the server did, and a method that
   failed on a context that can be used again did nothing
   (RedisClient.cpp).                                                      *)
THEOREM ResultsAreEffects == Spec => []ResultMeansEffect
<1>1. Spec => [](Of("redis") => Redis!TypeOK /\ Redis!ContextIsClean /\ Redis!SuccessMeansDone /\ Redis!FailureIsRepeatable)
  <2>1. Redis!Spec => [](Redis!TypeOK /\ Redis!ContextIsClean /\ Redis!SuccessMeansDone /\ Redis!FailureIsRepeatable)
    BY RedisConstants, RedisSafe
  <2>2. Init => (Of("redis") => Redis!Init)
    BY RedisOnly
  <2>3. Of("redis") /\ [Next]_vars => [Redis!Next]_Redis!vars
    BY RedisOnly
  <2>4. [Next]_vars => (Of("redis") <=> Of("redis")')
    BY SameClient
  <2> QED
    BY <2>1, <2>2, <2>3, <2>4, PTL DEF Spec, Redis!Spec
<1>2. (Of("redis") => Redis!TypeOK /\ Redis!ContextIsClean /\ Redis!SuccessMeansDone /\ Redis!FailureIsRepeatable) => ResultMeansEffect
  BY DEF ResultMeansEffect, Of
<1> QED
  BY <1>1, <1>2, PTL

(* Nothing a former call left is read as the answer to a later one
   (RedisClient.cpp:92-95 and its like).                                   *)
THEOREM ContextsAreClean == Spec => []ContextIsClean
<1>1. Spec => [](Of("redis") => Redis!TypeOK /\ Redis!ContextIsClean /\ Redis!SuccessMeansDone /\ Redis!FailureIsRepeatable)
  <2>1. Redis!Spec => [](Redis!TypeOK /\ Redis!ContextIsClean /\ Redis!SuccessMeansDone /\ Redis!FailureIsRepeatable)
    BY RedisConstants, RedisSafe
  <2>2. Init => (Of("redis") => Redis!Init)
    BY RedisOnly
  <2>3. Of("redis") /\ [Next]_vars => [Redis!Next]_Redis!vars
    BY RedisOnly
  <2>4. [Next]_vars => (Of("redis") <=> Of("redis")')
    BY SameClient
  <2> QED
    BY <2>1, <2>2, <2>3, <2>4, PTL DEF Spec, Redis!Spec
<1>2. (Of("redis") => Redis!TypeOK /\ Redis!ContextIsClean /\ Redis!SuccessMeansDone /\ Redis!FailureIsRepeatable) => ContextIsClean
  BY DEF ContextIsClean, Of
<1> QED
  BY <1>1, <1>2, PTL

(* The consumer consumes what it was given, until Start returns; a buffer
   given to the producer is freed once (KafkaConsumer.cpp:82-231,
   KafkaProducer.cpp:125-176).                                             *)
THEOREM KafkaIsSafe == Spec => []KafkaSafe
<1>1. Spec => [](Of("consumer") => Consumer!TypeOK /\ Consumer!UsableNeverCrashes /\ Consumer!LoopServesAll /\ Consumer!StartStopsAll)
  <2>1. Consumer!Spec => [](Consumer!TypeOK /\ Consumer!UsableNeverCrashes /\ Consumer!LoopServesAll /\ Consumer!StartStopsAll)
    BY ConsumerConstants, ConsumerSafe
  <2>2. Init => (Of("consumer") => Consumer!Init)
    BY ConsumerOnly
  <2>3. Of("consumer") /\ [Next]_vars => [Consumer!Next]_Consumer!vars
    BY ConsumerOnly
  <2>4. [Next]_vars => (Of("consumer") <=> Of("consumer")')
    BY SameClient
  <2> QED
    BY <2>1, <2>2, <2>3, <2>4, PTL DEF Spec, Consumer!Spec
<1>2. Spec => [](Of("producer") => Producer!TypeOK /\ Producer!UsableNeverCrashes /\ Producer!FreedOnce /\ Producer!AllReleased)
  <2>1. Producer!Spec => [](Producer!TypeOK /\ Producer!UsableNeverCrashes /\ Producer!FreedOnce /\ Producer!AllReleased)
    BY ProducerConstants, ProducerSafe
  <2>2. Init => (Of("producer") => Producer!Init)
    BY ProducerOnly
  <2>3. Of("producer") /\ [Next]_vars => [Producer!Next]_Producer!vars
    BY ProducerOnly
  <2>4. [Next]_vars => (Of("producer") <=> Of("producer")')
    BY SameClient
  <2> QED
    BY <2>1, <2>2, <2>3, <2>4, PTL DEF Spec, Producer!Spec
<1>3. (Of("consumer") => Consumer!TypeOK /\ Consumer!UsableNeverCrashes /\ Consumer!LoopServesAll /\ Consumer!StartStopsAll) /\ (Of("producer") => Producer!TypeOK /\ Producer!UsableNeverCrashes /\ Producer!FreedOnce /\ Producer!AllReleased) => KafkaSafe
  BY DEF KafkaSafe, Of
<1> QED
  BY <1>1, <1>2, <1>3, PTL

(* A response stands behind what the string held, sent for with the options
   of its call (HttpClient.cpp:48-274); a descriptor has one holder, and
   addresses, options and answers are a Socket's own (Socket.cpp).         *)
THEOREM NetworkIsSafe == Spec => []NetworkSafe
<1>1. Spec => [](Of("http") => Http!ResponseIsBehind /\ Http!HandleIsRight)
  <2>1. Http!Spec => [](Http!ResponseIsBehind /\ Http!HandleIsRight)
    BY HttpConstants, HttpSafe
  <2>2. Init => (Of("http") => Http!Init)
    BY HttpOnly
  <2>3. Of("http") /\ [Next]_vars => [Http!Next]_Http!vars
    BY HttpOnly
  <2>4. [Next]_vars => (Of("http") <=> Of("http")')
    BY SameClient
  <2> QED
    BY <2>1, <2>2, <2>3, <2>4, PTL DEF Spec, Http!Spec
<1>2. Spec => [](Of("socket") => Sock!OneHolder /\ Sock!DeadHoldNothing /\ Sock!AddressesRight /\ Sock!AnswersRight)
  <2>1. Sock!Spec => [](Sock!OneHolder /\ Sock!DeadHoldNothing /\ Sock!AddressesRight /\ Sock!AnswersRight)
    BY SocketConstants, SocketsSafe
  <2>2. Init => (Of("socket") => Sock!Init)
    BY SocketOnly
  <2>3. Of("socket") /\ [Next]_vars => [Sock!Next]_Sock!vars
    BY SocketOnly
  <2>4. [Next]_vars => (Of("socket") <=> Of("socket")')
    BY SameClient
  <2> QED
    BY <2>1, <2>2, <2>3, <2>4, PTL DEF Spec, Sock!Spec
<1>3. (Of("http") => Http!ResponseIsBehind /\ Http!HandleIsRight) /\ (Of("socket") => Sock!OneHolder /\ Sock!DeadHoldNothing /\ Sock!AddressesRight /\ Sock!AnswersRight) => NetworkSafe
  BY DEF NetworkSafe, Of
<1> QED
  BY <1>1, <1>2, <1>3, PTL

(* One instance, the same for everybody (singleton.h); whole objects and
   recent loads (SystemInfo.cpp); locks exclude, and a Thread is joined
   before it runs again (Thread.cpp).                                      *)
THEOREM ThreadsAreSafe == Spec => []ThreadsSafe
<1>1. Spec => [](Of("singleton") => Single!TypeOK /\ Single!OneInstance /\ Single!SameForAll)
  <2>1. Single!Spec => [](Single!TypeOK /\ Single!OneInstance /\ Single!SameForAll)
    BY SingleConstants, SingletonSafe
  <2>2. Init => (Of("singleton") => Single!Init)
    BY SingletonOnly
  <2>3. Of("singleton") /\ [Next]_vars => [Single!Next]_Single!vars
    BY SingletonOnly
  <2>4. [Next]_vars => (Of("singleton") <=> Of("singleton")')
    BY SameClient
  <2> QED
    BY <2>1, <2>2, <2>3, <2>4, PTL DEF Spec, Single!Spec
<1>2. Spec => [](Of("system") => System!TypeOK /\ System!InstanceIsMade /\ System!LoadIsRecent)
  <2>1. System!Spec => [](System!TypeOK /\ System!InstanceIsMade /\ System!LoadIsRecent)
    BY SystemConstants, SystemSafe
  <2>2. Init => (Of("system") => System!Init)
    BY SystemOnly
  <2>3. Of("system") /\ [Next]_vars => [System!Next]_System!vars
    BY SystemOnly
  <2>4. [Next]_vars => (Of("system") <=> Of("system")')
    BY SameClient
  <2> QED
    BY <2>1, <2>2, <2>3, <2>4, PTL DEF Spec, System!Spec
<1>3. Spec => [](Of("thread") => Threading!ScopesExclude /\ Threading!LocksAreScopes /\ Threading!JoinedBeforeRun)
  <2>1. Threading!Spec => [](Threading!ScopesExclude /\ Threading!LocksAreScopes /\ Threading!JoinedBeforeRun)
    BY LockConstants, LocksExclude, RunsAreJoined
  <2>2. Init => (Of("thread") => Threading!Init)
    BY ThreadOnly
  <2>3. Of("thread") /\ [Next]_vars => [Threading!Next]_Threading!vars
    BY ThreadOnly
  <2>4. [Next]_vars => (Of("thread") <=> Of("thread")')
    BY SameClient
  <2> QED
    BY <2>1, <2>2, <2>3, <2>4, PTL DEF Spec, Threading!Spec
<1>4. (Of("singleton") => Single!TypeOK /\ Single!OneInstance /\ Single!SameForAll) /\ (Of("system") => System!TypeOK /\ System!InstanceIsMade /\ System!LoadIsRecent) /\ (Of("thread") => Threading!ScopesExclude /\ Threading!LocksAreScopes /\ Threading!JoinedBeforeRun) => ThreadsSafe
  BY DEF ThreadsSafe, Of
<1> QED
  BY <1>1, <1>2, <1>3, <1>4, PTL
=============================================================================
