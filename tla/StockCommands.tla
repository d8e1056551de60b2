--------------------------- MODULE StockCommands ---------------------------
(***************************************************************************)
(* The command language that both stock servers share (parser.c and the    *)
(* command tables of impl.c) and the arithmetic of modify().               *)
(***************************************************************************)
EXTENDS Integers

CONSTANTS
    AskedIds,  \* the ids clients name; some may not be in the tree
    Amounts,   \* the second argument of sell and buy, after atoi
    IntMax     \* INT_MAX: counts are ints, and the build wraps around

ASSUME StockCommandsAssumption ==
    /\ IntMax \in Nat
    /\ Amounts \subseteq -(IntMax + 1) .. IntMax

Int32 == -(IntMax + 1) .. IntMax

Wrap(x) == ((x + IntMax + 1) % (2 * (IntMax + 1))) - (IntMax + 1)

(* The commands without arguments, and the error codes of parser(). *)
NoArgs(op) == [op |-> op, id |-> 0, n |-> 0]

(* sell and buy, with the flag INTINT. *)
IntInt == [op : {"sell", "buy"}, id : AskedIds, n : Amounts]

Show == NoArgs("show")

Commands == {Show} \cup IntInt

(***************************************************************************)
(* What parser() makes of a line: a command, or NOCMD, INVARG or NL.       *)
(***************************************************************************)
Lines == Commands \cup {NoArgs(op) : op \in {"exit", "NOCMD", "INVARG", "NL"}}

IsError(c) == c.op \in {"NOCMD", "INVARG", "NL"}

(* sell adds its amount, buy adds the negated amount. *)
Delta(c) == IF c.op = "sell" THEN c.n ELSE Wrap(-c.n)

(* modify(): what the count k becomes, and whether that much is left. *)
Moved(k, c) == Wrap(k + Delta(c))

(* Variant: one more than there is can be bought. *)
Enough_OffByOne(k, c) == Moved(k, c) >= -1

Enough(k, c) == Moved(k, c) >= 0

=============================================================================
