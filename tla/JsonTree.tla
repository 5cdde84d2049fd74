------------------------------- MODULE JsonTree -------------------------------
(***************************************************************************)
(* The tree of cJSON (src/base/cJSON.c): items linked by next, prev and    *)
(* child, the flags cJSON_IsReference and cJSON_StringIsConst, and who     *)
(* owns the name of an item.  A number's or a string's value is left out;  *)
(* valuestring is owned or shared as child is.                             *)
(*                                                                         *)
(* The caller keeps the rules of the interface: it adds only items that    *)
(* are in no list, and leaves an item alone as long as a reference to it   *)
(* lives.  Names are mixed when an item whose name is a constant is given  *)
(* one of its own, which frees the constant or leaks the copy, and when an *)
(* item that has a name replaces another by name, which leaks that name,   *)
(* equal or not (cJSON.c:969): `lost' keeps it, and the behaviour ends.    *)
(***************************************************************************)
EXTENDS Integers, Sequences, FiniteSets, SequencesExt

CONSTANTS
    MaxItems,       \* bound: items allocated at a time
    NULL,
    Key,            \* names
    MaxArray        \* bound: count of the Create...Array functions

Bounds == MaxItems \in Nat \ {0} /\ MaxArray \in Nat
NullIsNoItem == NULL \notin Nat \cup Key

Item == 1..MaxItems
Link == Item \cup {NULL}

VARIABLES
    alive,          \* items allocated
    next, prev, child,          \* [Item -> Link]
    container,      \* [Item -> BOOLEAN]: cJSON_Array or cJSON_Object
    isReference,    \* [Item -> BOOLEAN]: cJSON_IsReference
    stringIsConst,  \* [Item -> BOOLEAN]: cJSON_StringIsConst
    string,         \* [Item -> NULL or <<key, owned>>]: owned is it from cJSON_strdup
    origin,         \* [Item -> the item it is a reference to, or NULL]
    roots,          \* items in no list, the caller's to delete
    kids,           \* [Item -> Seq(Item)]: what the caller put in, in order
    lost            \* among "name", one never freed, "constant", one freed, and "mixed"

links == <<next, prev, child>>
vars == <<alive, links, container, isReference, stringIsConst, string, origin, roots, kids, lost>>

Init ==
    /\ alive = {} /\ roots = {} /\ lost = {}
    /\ next = [x \in Item |-> NULL] /\ prev = next /\ child = next /\ origin = next
    /\ container = [x \in Item |-> FALSE] /\ isReference = container /\ stringIsConst = container
    /\ string = next /\ kids = [x \in Item |-> <<>>]

(* The list that begins at x.                                              *)
RECURSIVE From(_)
From(x) == IF x = NULL THEN <<>> ELSE <<x>> \o From(next[x])

(* What cJSON_Delete frees: x, what follows it, and what is below either
   unless it is a reference.                                               *)
RECURSIVE Doomed(_)
Doomed(x) ==
    IF x = NULL THEN {}
    ELSE {x} \cup Doomed(next[x]) \cup (IF isReference[x] THEN {} ELSE Doomed(child[x]))

Below(x) == {x} \cup (IF isReference[x] THEN {} ELSE Doomed(child[x]))

(* The items nobody may change: they or something above them is referred to. *)
Frozen(x) == \E r \in alive : origin[r] /= NULL /\ x \in Below(origin[r])
Containers == {a \in alive : container[a] /\ ~isReference[a] /\ ~Frozen(a)}

(* The caller has x in hand, and a is not within it.                       *)
Addable(a, x) == x \in roots /\ a \notin Below(x)

Nth(a, which) == IF which + 1 <= Len(kids[a]) THEN From(child[a])[which + 1] ELSE NULL

(* GetObjectItem and the functions that look by name: the first of it.     *)
IndexOf(a, key) ==
    LET at == {k \in 1..Len(From(child[a])) :
                  LET s == string[From(child[a])[k]] IN s /= NULL /\ s[1] = key}
    IN  IF at = {} THEN NULL ELSE (CHOOSE k \in at : \A l \in at : k <= l) - 1

-----------------------------------------------------------------------------
(* Making items.                                                           *)

Fresh == {x \in Item \ alive : \A y \in Item \ alive : x <= y}

(* cJSON_New_Item and the Create functions.                                *)
Create(isContainer) ==
    \E x \in Fresh :
        /\ alive' = alive \cup {x} /\ roots' = roots \cup {x}
        /\ container' = [container EXCEPT ![x] = isContainer]
        /\ UNCHANGED <<links, isReference, stringIsConst, string, origin, kids, lost>>

(* CreateIntArray and its like: the first child is linked by child, every
   other by suffix_object.                                                  *)
CreateArray(count) ==
    /\ Cardinality(Item \ alive) > count
    /\ LET new == SetToSortSeq(Item \ alive, LAMBDA x, y : x < y)
           a == new[1]
           c == [k \in 1..count |-> new[k + 1]]
           at(x) == CHOOSE k \in 1..count : c[k] = x
           In == ToSet(c)
       IN  /\ alive' = alive \cup {a} \cup In /\ roots' = roots \cup {a}
           /\ container' = [x \in Item |-> IF x = a THEN TRUE ELSE IF x \in In THEN FALSE ELSE container[x]]
           /\ child' = [child EXCEPT ![a] = IF count = 0 THEN NULL ELSE c[1]]
           /\ next' = [x \in Item |-> IF x \in In
                          THEN (IF at(x) = count THEN NULL ELSE c[at(x) + 1]) ELSE next[x]]
           /\ prev' = [x \in Item |-> IF x \in In
                          THEN (IF at(x) = 1 THEN NULL ELSE c[at(x) - 1]) ELSE prev[x]]
           /\ kids' = [kids EXCEPT ![a] = c]
    /\ UNCHANGED <<isReference, stringIsConst, string, origin, lost>>

-----------------------------------------------------------------------------
(* Adding.                                                                 *)

Suffix(p, x) == next' = [next EXCEPT ![p] = x] /\ prev' = [prev EXCEPT ![x] = p]

SuffixForward(p, x) == next' = [next EXCEPT ![p] = x] /\ UNCHANGED prev

AddItemToArray(a, x) ==
    /\ IF child[a] = NULL
       THEN child' = [child EXCEPT ![a] = x] /\ UNCHANGED <<next, prev>>
       ELSE Suffix(Last(From(child[a])), x) /\ UNCHANGED child
    /\ kids' = [kids EXCEPT ![a] = Append(@, x)]

AddToArray(a, x) ==
    /\ Addable(a, x) /\ AddItemToArray(a, x)
    /\ roots' = roots \ {x}
    /\ UNCHANGED <<alive, container, isReference, stringIsConst, string, origin, lost>>

Mixed(is) == IF is THEN {"mixed"} ELSE {}

(* The old name is freed, whatever the flag says, and the flag stays.      *)
AddItemToObject(a, x, key) ==
    /\ Addable(a, x) /\ AddItemToArray(a, x)
    /\ lost' = lost \cup Mixed(stringIsConst[x])
                    \cup (IF string[x] /= NULL /\ ~string[x][2] THEN {"constant"} ELSE {})
    /\ string' = [string EXCEPT ![x] = <<key, TRUE>>]
    /\ roots' = roots \ {x}
    /\ UNCHANGED <<alive, container, isReference, stringIsConst, origin>>

AddItemToObjectCS(a, x, key) ==
    /\ Addable(a, x) /\ AddItemToArray(a, x)
    /\ string' = [string EXCEPT ![x] = <<key, FALSE>>]
    /\ stringIsConst' = [stringIsConst EXCEPT ![x] = TRUE]
    /\ roots' = roots \ {x}
    /\ UNCHANGED <<alive, container, isReference, origin, lost>>

(* create_reference copies the item, its child included, but not its name
   and its place; then it is added, here with AddItemToArray or, with a
   name of its own, AddItemToObject.                                       *)
AddItemReference(a, x, name) ==
    /\ a \notin Below(x)
    /\ lost' = lost \cup Mixed(stringIsConst[x] /\ name /= NULL)
    /\ \E r \in Fresh :
          /\ alive' = alive \cup {r}
          /\ container' = [container EXCEPT ![r] = container[x]]
          /\ isReference' = [isReference EXCEPT ![r] = TRUE]
          /\ stringIsConst' = [stringIsConst EXCEPT ![r] = stringIsConst[x]]
          /\ string' = [string EXCEPT ![r] = name]
          /\ origin' = [origin EXCEPT ![r] = IF isReference[x] THEN origin[x] ELSE x]
          /\ kids' = [kids EXCEPT ![a] = Append(@, r), ![r] = kids[x]]
          /\ IF child[a] = NULL
             THEN child' = [child EXCEPT ![a] = r, ![r] = child[x]] /\ UNCHANGED <<next, prev>>
             ELSE child' = [child EXCEPT ![r] = child[x]] /\ Suffix(Last(From(child[a])), r)
    /\ UNCHANGED roots

-----------------------------------------------------------------------------
(* Taking out and exchanging.                                              *)

Unlinked(f, x, to) == IF x = NULL THEN f ELSE [f EXCEPT ![x] = to]
NextWithout(c)     == [Unlinked(next, prev[c], next[c]) EXCEPT ![c] = NULL]
PrevWithout(c)     == [Unlinked(prev, next[c], prev[c]) EXCEPT ![c] = NULL]
ChildWithout(a, c) == IF c = child[a] THEN [child EXCEPT ![a] = next[c]] ELSE child
KidsWithout(a, which) == [kids EXCEPT ![a] = RemoveAt(@, which + 1)]

DetachItemFromArray(a, which) ==
    LET c == Nth(a, which)
    IN  /\ c /= NULL
        /\ next' = NextWithout(c) /\ prev' = PrevWithout(c) /\ child' = ChildWithout(a, c)
        /\ kids' = KidsWithout(a, which)
        /\ roots' = roots \cup {c}
        /\ UNCHANGED <<alive, container, isReference, stringIsConst, string, origin, lost>>

DetachItemFromObject(a, key) ==
    IndexOf(a, key) /= NULL /\ DetachItemFromArray(a, IndexOf(a, key))

(* What freeing the items does to the names: freed unless constant by the flag. *)
Freed(items) ==
    {"constant" : x \in {x \in items : string[x] /= NULL /\ ~stringIsConst[x] /\ ~string[x][2]}}
    \cup {"name" : x \in {x \in items : string[x] /= NULL /\ stringIsConst[x] /\ string[x][2]}}

Clear(f, items, value) == [x \in Item |-> IF x \in items THEN value ELSE f[x]]

Free(items, n, p, c, k) ==
    /\ alive' = alive \ items
    /\ next' = Clear(n, items, NULL) /\ prev' = Clear(p, items, NULL)
    /\ child' = Clear(c, items, NULL) /\ kids' = Clear(k, items, <<>>)
    /\ origin' = Clear(origin, items, NULL)
    /\ container' = Clear(container, items, FALSE)
    /\ isReference' = Clear(isReference, items, FALSE)
    /\ stringIsConst' = Clear(stringIsConst, items, FALSE)

(* Nothing that stays refers to what is freed.                             *)
Unreferred(items) == ~\E r \in alive \ items : origin[r] \in items

Delete(x) ==
    /\ x \in roots /\ Unreferred(Below(x))
    /\ Free(Doomed(x), next, prev, child, kids)
    /\ lost' = lost \cup Freed(Doomed(x)) /\ string' = Clear(string, Doomed(x), NULL)
    /\ roots' = roots \ {x}

DeleteItemFromArray(a, which) ==
    LET c == Nth(a, which)
    IN  /\ c /= NULL /\ Unreferred(Below(c))
        /\ Free(Below(c), NextWithout(c), PrevWithout(c), ChildWithout(a, c), KidsWithout(a, which))
        /\ lost' = lost \cup Freed(Below(c)) /\ string' = Clear(string, Below(c), NULL)
        /\ UNCHANGED roots

DeleteItemFromObject(a, key) ==
    IndexOf(a, key) /= NULL /\ DeleteItemFromArray(a, IndexOf(a, key))

(* At the end of the array when which is behind it.                        *)
InsertItemInArray(a, which, x) ==
    /\ Addable(a, x)
    /\ LET c == Nth(a, which)
       IN  IF c = NULL THEN AddItemToArray(a, x)
           ELSE /\ next' = Unlinked([next EXCEPT ![x] = c],
                                    IF c = child[a] THEN NULL ELSE prev[c], x)
                /\ prev' = [prev EXCEPT ![x] = prev[c], ![c] = x]
                /\ child' = IF c = child[a] THEN [child EXCEPT ![a] = x] ELSE child
                /\ kids' = [kids EXCEPT ![a] = InsertAt(@, which + 1, x)]
    /\ roots' = roots \ {x}
    /\ UNCHANGED <<alive, container, isReference, stringIsConst, string, origin, lost>>

(* The old item is cut out of the list before it is deleted, else its
   successors would be, too.  x is to have the name, and leaks is what is
   lost of its own.                                                         *)
Exchange(a, which, x, name, leaks) ==
    /\ Addable(a, x)
    /\ LET c == Nth(a, which)
           n == Unlinked([next EXCEPT ![x] = next[c]], IF c = child[a] THEN NULL ELSE prev[c], x)
           p == Unlinked([prev EXCEPT ![x] = prev[c]], next[c], x)
       IN  /\ c /= NULL /\ Unreferred(Below(c))
           /\ Free(Below(c), n, p,
                   IF c = child[a] THEN [child EXCEPT ![a] = x] ELSE child,
                   [kids EXCEPT ![a][which + 1] = x])
           /\ lost' = lost \cup Freed(Below(c)) \cup leaks
           /\ string' = Clear([string EXCEPT ![x] = name], Below(c), NULL)
    /\ roots' = roots \ {x}

ReplaceItemInArray(a, which, x) == Exchange(a, which, x, string[x], {})

(* x gets a copy of the key; the name it had is not freed.                 *)
ReplaceItemInObject(a, key, x) ==
    /\ x \in roots /\ IndexOf(a, key) /= NULL
    /\ Exchange(a, IndexOf(a, key), x, <<key, TRUE>>,
                Mixed(string[x] /= NULL \/ stringIsConst[x])
                \cup (IF string[x] /= NULL /\ string[x][2] THEN {"name"} ELSE {}))

(* What the copies are of, by the way to each from x: an item is copied once
   for every reference it is reached by.  The copies own their children and
   their names, though the flag of a constant is copied, too.               *)
RECURSIVE Ways(_)
Ways(x) ==
    LET list == From(child[x])
    IN  {<<>>} \cup UNION {{<<k>> \o way : way \in Ways(list[k])} : k \in DOMAIN list}
RECURSIVE Reached(_, _)
Reached(x, way) == IF way = <<>> THEN x ELSE Reached(From(child[x])[way[1]], Tail(way))

Duplicate(x, recurse) ==
    LET ways  == IF recurse THEN Ways(x) ELSE {<<>>}
        order == SetToSeq(ways)
        new   == SetToSortSeq(Item \ alive, LAMBDA y, z : y < z)
        copy(way) == IF way \in ways THEN new[CHOOSE k \in DOMAIN order : order[k] = way] ELSE NULL
        In    == {copy(way) : way \in ways}
        wayTo(z) == CHOOSE way \in ways : copy(way) = z
        of(z) == Reached(x, wayTo(z))
        beside(way, n) == IF way = <<>> THEN NULL ELSE copy([way EXCEPT ![Len(way)] = @ + n])
        With(f, value(_)) == [z \in Item |-> IF z \in In THEN value(z) ELSE f[z]]
    IN  /\ x \in alive /\ Cardinality(Item \ alive) >= Cardinality(ways)
        /\ alive' = alive \cup In /\ roots' = roots \cup {copy(<<>>)}
        /\ next' = With(next, LAMBDA z : beside(wayTo(z), 1))
        /\ prev' = With(prev, LAMBDA z : beside(wayTo(z), -1))
        /\ child' = With(child, LAMBDA z : copy(Append(wayTo(z), 1)))
        /\ kids' = With(kids, LAMBDA z : IF recurse
                          THEN [k \in DOMAIN kids[of(z)] |-> copy(Append(wayTo(z), k))] ELSE <<>>)
        /\ container' = With(container, LAMBDA z : container[of(z)])
        /\ stringIsConst' = With(stringIsConst, LAMBDA z : stringIsConst[of(z)])
        /\ string' = With(string, LAMBDA z : IF string[of(z)] = NULL THEN NULL ELSE <<string[of(z)][1], TRUE>>)
        /\ lost' = lost \cup Mixed(\E z \in In : stringIsConst[of(z)])
        /\ UNCHANGED <<isReference, origin>>

Next ==
    /\ lost = {}
    /\ \/ \E b \in BOOLEAN : Create(b)
       \/ \E count \in 1..MaxArray : CreateArray(count)
       \/ \E a \in Containers, x \in alive :
             \/ AddToArray(a, x)
             \/ \E which \in 0..Len(kids[a]) :
                   InsertItemInArray(a, which, x) \/ ReplaceItemInArray(a, which, x)
             \/ \E key \in Key :
                   \/ AddItemToObject(a, x, key) \/ AddItemToObjectCS(a, x, key)
                   \/ ReplaceItemInObject(a, key, x)
                   \/ AddItemReference(a, x, <<key, TRUE>>)
             \/ AddItemReference(a, x, NULL)
       \/ \E a \in Containers :
             \/ \E which \in 0..Len(kids[a]) : DetachItemFromArray(a, which) \/ DeleteItemFromArray(a, which)
             \/ \E key \in Key : DetachItemFromObject(a, key) \/ DeleteItemFromObject(a, key)
       \/ \E x \in alive : Delete(x) \/ \E recurse \in BOOLEAN : Duplicate(x, recurse)

Spec == Init /\ [][Next]_vars

-----------------------------------------------------------------------------
(* Every item is one root's or one list's, so the one cJSON_Delete of its
   root frees it once; names are freed with their items and constants never,
   unless an item whose name is a constant was given one of its own or an
   item that had a name replaced another by name (cJSON.c:80-90, 875-972).  *)
FreedOnce ==
    /\ \A x \in alive :
          LET owners == {a \in alive : ~isReference[a] /\ x \in ToSet(From(child[a]))}
          IN  Cardinality(owners) + (IF x \in roots THEN 1 ELSE 0) = 1
    /\ lost /= {} => "mixed" \in lost

(* However items are added, inserted, replaced and taken out, the list of a
   container is the sequence the caller made, forwards and backwards, and a
   reference shows the items of its original (cJSON.c:839-972, 1080-1124).  *)
ListIsSequence ==
    \A a \in alive :
        LET list == From(child[a])
        IN  /\ list = kids[a] /\ ToSet(list) \subseteq alive
            /\ \A k \in 1..Len(list) : prev[list[k]] = (IF k = 1 THEN NULL ELSE list[k - 1])
            /\ a \in roots => next[a] = NULL /\ prev[a] = NULL
            /\ isReference[a] => child[a] = child[origin[a]]
===============================================================================
