------------------------------- MODULE Types --------------------------------
(***************************************************************************)
(* Types as the resolver computes with them (crates/resolver/src/symbol.rs *)
(* and the type functions at the end of resolver.rs): merging, assigning   *)
(* to a symbol with and without a documented type, and what a condition    *)
(* leaves of a type.                                                       *)
(*                                                                         *)
(* A primitive is a kind and what is known beyond it, if anything: the     *)
(* value of a literal, the class of an instance, the table of a table.     *)
(* A type is a primitive, a union, i.e. a sequence of primitives with a    *)
(* cached set of their kinds, or an enum; which enum is left out, and so   *)
(* is the kind of a string literal.                                        *)
(***************************************************************************)
EXTENDS Naturals, Sequences, FiniteSets

CONSTANTS
  Kinds,         \* the kinds of primitives in use
  DataOf,        \* for each kind, what can be known of a primitive beyond it
  Supers,        \* for the data of an instance: its class and those above it
  FalsyData,     \* the data of literals that count as false
  True,          \* the data of the literal true
  None

(* Kinds whose documented type is refined by the first assigned value.     *)
Refined == {"table", "class", "array", "function", "generator", "thread",
            "integer", "float", "bool"}

Data == UNION {DataOf[k] : k \in Kinds}
Classes == DataOf["instance"]

ASSUME TypesAssumption ==
  /\ {"any", "null", "instance"} \subseteq Kinds /\ "no match" \notin Kinds
  /\ DataOf["any"] = {} /\ DataOf["null"] = {} /\ None \notin Data \cup FalsyData
  /\ Supers \in [Classes -> SUBSET Classes] /\ \A c \in Classes : c \in Supers[c]
  /\ \A k \in Kinds \ {"integer", "float", "bool"} : DataOf[k] \cap FalsyData = {}
  /\ "bool" \in Kinds => DataOf["bool"] \ FalsyData = {True}

Primitives == {p \in [kind : Kinds, of : Data \cup {None}] : p.of \in DataOf[p.kind] \cup {None}}
Prim(k, d) == [kind |-> k, of |-> d]
NoMatch == [kind |-> "no match", of |-> None]

KindsOf(s) == {s[i].kind : i \in DOMAIN s}
One(p) == [tag |-> "primitive", members |-> <<p>>, flags |-> {p.kind}]
Union(s, flags) == [tag |-> "union", members |-> s, flags |-> flags]
Enum == [tag |-> "enum", members |-> << >>, flags |-> {}]
AnyType == One(Prim("any", None))
NullType == One(Prim("null", None))

(* The least of the places I of a sequence, 0 if there is none.            *)
FirstOf(I) == IF I = {} THEN 0 ELSE CHOOSE i \in I : \A j \in I : i <= j

(* The members of s at the places I, in their order.                       *)
Chosen(s, I) ==
  [n \in 1..Cardinality(I) |-> s[CHOOSE i \in I : Cardinality({j \in I : j <= i}) = n]]

-----------------------------------------------------------------------------
(* Merging *)

(* Two primitives of a kind become one without data; only instances of     *)
(* different classes stay apart.                                           *)
MergePrimitives(l, r) ==
  CASE l = r -> l
    [] l.kind # r.kind -> NoMatch
    [] l # r /\ l.kind = "instance" /\ l.of # None /\ r.of # None -> NoMatch
    [] OTHER -> Prim(l.kind, None)

Merge(l, r) == MergePrimitives(l, r) # NoMatch

(* Fault: the kinds of the union stay as they were.                        *)
IncludeStale(u, p) ==
  LET i == FirstOf({j \in DOMAIN u.members : Merge(u.members[j], p)})
  IN Union(IF i = 0 THEN Append(u.members, p)
           ELSE [u.members EXCEPT ![i] = MergePrimitives(@, p)],
           u.flags)

(* The first member that p merges with takes it in.                        *)
Include(u, p) ==
  LET i == FirstOf({j \in DOMAIN u.members : Merge(u.members[j], p)})
  IN Union(IF i = 0 THEN Append(u.members, p)
           ELSE [u.members EXCEPT ![i] = MergePrimitives(@, p)],
           u.flags \cup {p.kind})

(* The place among those left of b whose member p merges with.             *)
Partner(p, b, left) == FirstOf({j \in left : Merge(p, b[j])})

(* The places of b that are left after the first n members of a.           *)
Unmerged(a, b) ==
  LET left[n \in 0..Len(a)] ==
        IF n = 0 THEN DOMAIN b ELSE left[n - 1] \ {Partner(a[n], b, left[n - 1])}
  IN left

(* Every member of l merges with the first member of r that is left.       *)
MergeUnions(l, r) ==
  LET a == l.members
      b == r.members
      left == Unmerged(a, b)
      merged(n) == LET j == Partner(a[n], b, left[n - 1]) IN
                   IF j = 0 THEN a[n] ELSE MergePrimitives(a[n], b[j])
  IN Union([n \in DOMAIN a |-> merged(n)] \o Chosen(b, left[Len(a)]), l.flags \cup r.flags)

MergeTypes(l, r) ==
  CASE l.tag = "enum" -> r
    [] r.tag = "enum" -> l
    [] l.tag = "union" /\ r.tag = "union" -> MergeUnions(l, r)
    [] l.tag = "union" /\ r.tag = "primitive" -> Include(l, r.members[1])
    [] r.tag = "union" /\ l.tag = "primitive" -> Include(r, l.members[1])
    [] OTHER ->
         LET m == MergePrimitives(l.members[1], r.members[1]) IN
         IF m # NoMatch THEN One(m)
         ELSE Union(l.members \o r.members, l.flags \cup r.flags)

AddAny(t) == MergeTypes(t, AnyType)

-----------------------------------------------------------------------------
(* Assigning *)

(* check_primitive: what a documented primitive becomes by a value's.      *)
CheckPrimitive(o, n) ==
  IF o.kind # n.kind THEN IF o.kind = "float" /\ n.kind = "integer" THEN o ELSE NoMatch
  ELSE CASE o.kind = "any" -> NoMatch
         [] o.kind = "string" /\ n.of # None -> n
         [] o.kind = "instance" /\ o.of # None /\ n.of # None ->
              IF o.of \in Supers[n.of] \/ n.of \in Supers[o.of] THEN o ELSE NoMatch
         [] o.kind \in Refined /\ o.of = None -> n
         [] OTHER -> o

(* The first member of s that d takes.                                     *)
Takes(d, p) == CheckPrimitive(d, p) # NoMatch
FirstTaken(d, s) == FirstOf({i \in DOMAIN s : Takes(d, s[i])})

(* check_type: the documented type after the assignment.                   *)
CheckType(doc, other) ==
  CASE doc.tag = "enum" \/ other.tag = "enum" -> doc
    [] doc.tag = "union" /\ other.tag = "union" ->
         LET taken(d) == LET i == FirstTaken(d, other.members) IN
                         IF i = 0 THEN d ELSE CheckPrimitive(d, other.members[i])
             s == [i \in DOMAIN doc.members |-> taken(doc.members[i])]
         IN Union(s, KindsOf(s))
    [] doc.tag = "union" /\ other.tag = "primitive" ->
         LET p == other.members[1]
             i == FirstOf({j \in DOMAIN doc.members : Takes(doc.members[j], p)})
         IN IF i = 0 THEN doc
            ELSE [doc EXCEPT !.members[i] = CheckPrimitive(@, p)]
    [] OTHER ->
         LET i == FirstTaken(doc.members[1], other.members) IN
         IF i = 0 THEN doc
         ELSE One(CheckPrimitive(doc.members[1], other.members[i]))

(* update_type: what the type of a symbol becomes by an assignment.        *)
UpdateType(current, explicit, new) ==
  CASE explicit -> CheckType(current, new)
    [] ~explicit /\ current.flags = {"any", "null"} -> AddAny(new)
    [] ~explicit /\ current.flags = {"null"} -> new
    [] OTHER -> MergeTypes(current, new)

-----------------------------------------------------------------------------
(* Narrowing *)

IsFalsy(p) == p.kind = "null" \/ p.of \in FalsyData

Rebuild(s) ==
  CASE Len(s) = 0 -> AnyType
    [] Len(s) = 1 -> One(s[1])
    [] OTHER -> Union(s, KindsOf(s))

(* The flags are those of t but for null, not taken anew.                  *)
RemoveNull(t) ==
  LET s == Chosen(t.members, {i \in DOMAIN t.members : t.members[i].kind # "null"}) IN
  CASE t.tag = "primitive" /\ s = << >> -> AnyType
    [] t.tag = "union" /\ Len(s) > 1 -> Union(s, t.flags \ {"null"})
    [] t.tag = "union" /\ Len(s) <= 1 -> Rebuild(s)
    [] OTHER -> t

RemoveTypeof(t, k) ==
  LET s == Chosen(t.members, {i \in DOMAIN t.members : t.members[i].kind # k}) IN
  CASE t.tag = "primitive" /\ s = << >> -> AnyType
    [] t.tag = "union" -> Rebuild(s)
    [] OTHER -> t

RemoveFalsy(t) ==
  LET s == Chosen(t.members, {i \in DOMAIN t.members : ~IsFalsy(t.members[i])})
      true(p) == IF p = Prim("bool", None) THEN Prim("bool", True) ELSE p
  IN CASE t.tag = "primitive" /\ s = << >> -> AnyType
       [] t.tag = "union" -> Rebuild([i \in DOMAIN s |-> true(s[i])])
       [] OTHER -> t

(* Of a union only the primitives that are known to be false are kept.     *)
RemoveTruthy(t) ==
  CASE t.tag = "primitive" /\ IsFalsy(t.members[1]) -> AnyType
    [] t.tag = "union" -> Rebuild(Chosen(t.members, {i \in DOMAIN t.members : IsFalsy(t.members[i])}))
    [] OTHER -> t

-----------------------------------------------------------------------------
(* Types that the program can hold: the cached kinds are those of the      *)
(* members, a union is never left with a single member or with none, and   *)
(* it holds two primitives of a kind only if they are instances.           *)

Canonical(t) ==
  /\ t.flags = KindsOf(t.members)
  /\ t.tag = "union" => Len(t.members) > 1
  /\ \A i, j \in DOMAIN t.members :
       t.members[i].kind = t.members[j].kind => i = j \/ t.members[i].kind = "instance"

IsType(t) ==
  /\ t \in [tag : {"primitive", "union", "enum"}, members : Seq(Primitives), flags : SUBSET Kinds]
  /\ t.tag = "primitive" => Len(t.members) = 1
  /\ t.tag = "enum" => t.members = << >>
  /\ Canonical(t)

-----------------------------------------------------------------------------
(* What a type means: the values it stands for.  A value is a primitive    *)
(* with all there is to know.                                              *)

Stands(p, v) ==
  \/ p.kind = "any"
  \/ p.kind = v.kind /\ (p.of \in {None, v.of} \/ (v.kind = "instance" /\ p.of \in Supers[v.of]))

Denotes(t, v) == \E i \in DOMAIN t.members : Stands(t.members[i], v)
=============================================================================
