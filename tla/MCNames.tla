------------------------------ MODULE MCNames ------------------------------
(***************************************************************************)
(* Names with a script that includes others, and one library.              *)
(***************************************************************************)
EXTENDS Execution

CONSTANTS a, b, c, lib

MCLibs == <<lib>>

AnySlot == {Slot("this"), Slot("root"), Slot("T")}
Top2 == {Slot("this"), Slot("root")}
Order == <<"this", "root", "const", "T">>
Family(order, ofA, mostA, ofB, mostB, ofC, mostC) ==
  [order |-> order,
   of |-> [f \in Scripts |-> CASE f = a -> ofA [] f = b -> ofB [] f = c -> ofC [] OTHER -> {Slot("this")}],
   most |-> [f \in Scripts |-> CASE f = a -> mostA [] f = b -> mostB [] f = c -> mostC [] OTHER -> 1]]

(* Includes of two scripts into several tables.                            *)
Included(order) ==
  Family(order, AnySlot \cup {Function} \cup {Include(g, t) : g \in {b, c}, t \in {"this", "root", "T"}}, 3,
         Top2 \cup {Declare("const")}, 1, Top2, 1)
(* Delegates of the script's own tables.                                   *)
Delegating ==
  Family(Order, {Slot("this"), Slot("T"), Function, SetDelegate("T", "this"), SetDelegate("this", "T"),
                 SetDelegate("T", "T"), Include(b, "this"), Include(b, "T")}, 3,
         {Slot("this"), Slot("T"), SetDelegate("this", "T")}, 2, {}, 0)
(* Locals and constants.                                                   *)
Scoped ==
  Family(Order, Top2 \cup {Function, Declare("local"), Declare("const"), Include(b, "this")}, 3,
         {Slot("this"), Declare("local"), Declare("const")}, 2, {}, 0)
(* Scripts that include scripts, and each other.                           *)
Circular ==
  Family(Order, {Slot("this"), Function, Include(b, "this"), Include(a, "this")}, 3,
         {Slot("this"), Function, Include(c, "this"), Include(c, "root"), Include(a, "this")}, 2,
         Top2 \cup {Include(b, "this"), Include(a, "this")}, 1)
MCFamilies == {Included(Order), Included(Reverse(Order)), Delegating, Scoped, Circular}
=============================================================================
