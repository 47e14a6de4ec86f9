------------------------------- MODULE MCFlow -------------------------------
(***************************************************************************)
(* Flow with the literals 0, 1, true and false, two classes, one of them   *)
(* derived from the other, and the tests a script is likely to make.       *)
(***************************************************************************)
EXTENDS Flow, TLC

CONSTANTS zero, one, yes, no, base, derived

MCKinds == {"any", "null", "integer", "bool", "instance"}
MCDataOf == [k \in MCKinds |-> CASE k = "integer" -> {zero, one}
                               [] k = "bool" -> {yes, no}
                               [] k = "instance" -> {base, derived}
                               [] OTHER -> {}]
MCSupers == [c \in {base, derived} |-> IF c = derived THEN {base, derived} ELSE {base}]

Integer == Prim("integer", None)
Bool == Prim("bool", None)
Null == Prim("null", None)
Instance(c) == Prim("instance", c)

EveryDeclared ==
  {One(Integer), One(Null), Union(<<Bool, Null>>, {"bool", "null"}),
   Union(<<Null, Instance(base)>>, {"null", "instance"})}
EveryAssigned ==
  {One(Prim("integer", zero)), One(Prim("integer", one)), One(Null), One(Bool),
   Union(<<Instance(derived), Null>>, {"instance", "null"})}
MCValues ==
  {Null, Prim("integer", zero), Prim("integer", one), Prim("bool", yes), Prim("bool", no),
   Instance(base), Instance(derived)}

Truthy == Test("truthy", None, FALSE)
Untruthy == Test("truthy", None, TRUE)
IsNull == Test("null", None, FALSE)
NotNull == Test("null", None, TRUE)
IsInteger == Test("typeof", "integer", FALSE)
IsBase == Test("instanceof", base, FALSE)

EveryCondition ==
  {Condition("test", FALSE, <<t>>) : t \in {Truthy, Untruthy, IsNull, IsInteger, IsBase}}
    \cup {Condition("and", neg, <<NotNull, IsInteger>>) : neg \in BOOLEAN}
    \cup {Condition("or", neg, <<IsNull, Untruthy>>) : neg \in BOOLEAN}

Family(types, assigned, conditions, statements, most) ==
  [declared |-> types, assigned |-> assigned, conditions |-> conditions,
   statements |-> statements, most |-> most]

(* Every condition and type, in short bodies.                              *)
Testing == Family(EveryDeclared, EveryAssigned, EveryCondition, {"assign", "then", "while"}, 3)
(* Conditions that assign, and steps of for loops.                         *)
Stepping ==
  Family({One(Integer), One(Null)}, {One(Null), One(Prim("integer", one))},
         {Assignment(t) : t \in {One(Null), Union(<<Instance(derived), Null>>, {"instance", "null"})}}
           \cup {Condition("test", FALSE, <<NotNull>>)},
         {"assign", "then", "while", "do", "for"}, 3)
(* Jumps out of everything.                                                *)
Jumping ==
  Family({One(Integer)}, {One(Null)}, {Condition("test", FALSE, <<NotNull>>)},
         {"assign", "then", "while", "foreach", "case", "try", "block", "break", "continue", "out", "throw"}, 5)
(* Documented types, what refines them and what does not.                  *)
Documented ==
  Family({One(Integer), Union(<<Integer, Null>>, {"integer", "null"})},
         {One(Prim("integer", one)), Union(<<Prim("integer", one), Prim("any", None)>>, {"integer", "any"}),
          AnyType},
         {Assignment(One(Prim("integer", one))), Condition("test", FALSE, <<NotNull>>)},
         {"assign", "do", "break", "then"}, 4)
MCFamilies == {Testing, Stepping, Jumping, Documented}
=============================================================================
