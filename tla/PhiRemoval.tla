----------------------------- MODULE PhiRemoval -----------------------------
(***************************************************************************)
(* InternalTranslation: a function in SSA form becomes blocks of uops,     *)
(* instruction by instruction in layout order; then dephi inserts, before  *)
(* the last uop of every predecessor, a copy for every datum of every phi. *)
(* Constants that take more than one uop are cached per block: the upper   *)
(* part of an integer (lui_map), a float as a whole (fimm_map).            *)
(***************************************************************************)
EXTENDS Naturals, SequencesExt

CONSTANTS
    Functions,   \* the functions to translate
    MaxWalk      \* bound: blocks of an execution that is compared

(* An operand is a variable or a constant.  cls of a constant: "small"     *)
(* fits one uop, "int" has the upper part key, "float" is known by key.    *)
Var(v) == [cls |-> "var", key |-> v, low |-> 0]
Const(cls, key, low) == [cls |-> cls, key |-> key, low |-> low]

(* An instruction is "op" (res from args, of which one at most is a        *)
(* constant, the others having been folded), "end" (a branch, jump or      *)
(* return reading args) or "phi" (data: operands with their blocks).       *)
Op(res, args) == [kind |-> "op", res |-> res, args |-> args]
End(args) == [kind |-> "end", res |-> 0, args |-> args]
Phi(res, data) == [kind |-> "phi", res |-> res, data |-> data]

IsConst(a) == a.cls /= "var"
Consts(i) == {k \in DOMAIN i.args : IsConst(i.args[k])}

Operands(f) == [cls : {"var"}, key : 1 .. f.vars, low : {0}] \cup
               [cls : {"small", "int"}, key : Nat, low : Nat] \cup
               [cls : {"float"}, key : Nat, low : {0}]
Instructions(f) ==
    [kind : {"op"}, res : 1 .. f.vars, args : Seq(Operands(f))] \cup
    [kind : {"end"}, res : {0}, args : Seq(Operands(f))] \cup
    [kind : {"phi"}, res : 1 .. f.vars,
     data : Seq([arg : Operands(f), from : DOMAIN f.code]) \ {<<>>}]

(* Blocks start with their phis, of which the entry has none, and end with *)
(* the one instruction that leaves them; a phi has one datum for every     *)
(* block control may come from.                                            *)
IsFunction(f) ==
    /\ f.vars \in Nat
    /\ f.code \in Seq(Seq(Instructions(f)) \ {<<>>}) \ {<<>>}
    /\ \A b \in DOMAIN f.code : \A k \in DOMAIN f.code[b] :
        LET i == f.code[b][k]
        IN  /\ i.kind = "end" <=> k = Len(f.code[b])
            /\ i.kind /= "phi" => \A m, n \in Consts(i) : m = n
            /\ i.kind = "phi" =>
                /\ b /= 1
                /\ \A j \in DOMAIN f.code[b] : j < k => f.code[b][j].kind = "phi" /\ f.code[b][j].res /= i.res
                /\ \A m, n \in DOMAIN i.data : i.data[m].from = i.data[n].from => m = n
                /\ \A p \in DOMAIN f.code : b \in f.succ[p] => \E n \in DOMAIN i.data : i.data[n].from = p

ASSUME FunctionAssumption == MaxWalk \in Nat /\ \A f \in Functions : IsFunction(f)

(* Nothing clears the caches after the last block: its constants are still *)
(* there when dephi makes its first copy.                                  *)
Leaks(f) ==
    \E b \in DOMAIN f.code :
        /\ f.code[b][1].kind = "phi"
        /\ \A a \in DOMAIN f.code : a < b => f.code[a][1].kind /= "phi"
        /\ LET c == f.code[b][1].data[1].arg
           IN  /\ c.cls \in {"int", "float"}
               /\ \E i \in Range(Last(f.code)) :
                    i.kind /= "phi" /\ \E k \in Consts(i) : i.args[k].cls = c.cls /\ i.args[k].key = c.key

(* A uop: what it does, its result, the registers it reads, its constant.  *)
Uop(do, res, regs, imm) == [do |-> do, res |-> res, regs |-> regs, imm |-> imm]
NoImm == Var(0)

VARIABLES
    fn,          \* the function: succ and code of every block, vars of them all
    phase,       \* "translate", "dephi", "done"
    block, inst, \* what TranslateTo is called for
    uops,        \* uops_ of every block
    count,       \* virtual registers exist up to this one
    lui, fimm,   \* lui_map, fimm_map of the context
    phis,        \* phi_vec: phi instructions with the register copies go to
    datum        \* dephi: index of the phi and of its datum

vars == <<fn, phase, block, inst, uops, count, lui, fimm, phis, datum>>

Blocks == DOMAIN fn.code
Current == fn.code[block][inst]

-----------------------------------------------------------------------------
(* li and lf: the uops that bring constant c to register dst, and what     *)
(* they leave in the caches.                                               *)

Entering(cache, key, r) == [k \in DOMAIN cache \cup {key} |-> IF k = key THEN r ELSE cache[k]]

Load(c, dst, fresh) ==
    CASE c.cls = "small" ->
           [uops |-> <<Uop("li", dst, <<>>, c)>>, lui |-> lui, fimm |-> fimm, new |-> 0]
      [] c.cls = "int" /\ c.key \in DOMAIN lui ->
           [uops |-> <<Uop("addi", dst, <<lui[c.key]>>, c)>>, lui |-> lui, fimm |-> fimm, new |-> 0]
      [] c.cls = "int" /\ c.key \notin DOMAIN lui ->
           [uops |-> <<Uop("lui", fresh, <<>>, c), Uop("addi", dst, <<fresh>>, c)>>,
            lui |-> Entering(lui, c.key, fresh), fimm |-> fimm, new |-> 1]
      [] c.cls = "float" /\ c.key \in DOMAIN fimm ->
           [uops |-> <<Uop("mv", dst, <<fimm[c.key]>>, NoImm)>>, lui |-> lui, fimm |-> fimm, new |-> 0]
      [] OTHER ->
           [uops |-> <<Uop("li", dst, <<>>, c)>>, lui |-> lui, fimm |-> Entering(fimm, c.key, dst), new |-> 0]

Init ==
    /\ fn \in Functions
    /\ phase = "translate"
    /\ block = 1 /\ inst = 1
    /\ uops = [b \in Blocks |-> <<>>]
    /\ count = fn.vars
    /\ lui = <<>> /\ fimm = <<>>
    /\ phis = <<>>
    /\ datum = <<1, 1>>

Emit(b, new) == uops' = [uops EXCEPT ![b] = @ \o new]

(* An instruction without constants reads the registers of its operands.   *)
TranslatePlain ==
    /\ phase = "translate" /\ inst \in DOMAIN fn.code[block]
    /\ Current.kind /= "phi"
    /\ Consts(Current) = {}
    /\ Emit(block, <<Uop(Current.kind, Current.res, [k \in DOMAIN Current.args |-> Current.args[k].key], NoImm)>>)
    /\ inst' = inst + 1
    /\ UNCHANGED <<fn, phase, block, count, lui, fimm, phis, datum>>

(* A constant operand is brought to a new register first. *)
TranslateConst ==
    /\ phase = "translate" /\ inst \in DOMAIN fn.code[block]
    /\ Current.kind /= "phi"
    /\ Consts(Current) /= {}
    /\ LET dst == count + 1
           l == Load(Current.args[CHOOSE k \in Consts(Current) : TRUE], dst, count + 2)
           regs == [k \in DOMAIN Current.args |-> IF IsConst(Current.args[k]) THEN dst ELSE Current.args[k].key]
       IN  /\ Emit(block, l.uops \o <<Uop(Current.kind, Current.res, regs, NoImm)>>)
           /\ count' = dst + l.new
           /\ lui' = l.lui
           /\ fimm' = l.fimm
    /\ inst' = inst + 1
    /\ UNCHANGED <<fn, phase, block, phis, datum>>

(* For the mutants: the copies write the result itself.                    *)
TranslatePhi_Direct ==
    /\ phase = "translate" /\ inst \in DOMAIN fn.code[block]
    /\ Current.kind = "phi"
    /\ phis' = Append(phis, [data |-> Current.data, mux |-> Current.res])
    /\ inst' = inst + 1
    /\ UNCHANGED <<fn, phase, block, uops, count, lui, fimm, datum>>

(* A phi reads a register of its own, which the copies will write.         *)
TranslatePhi ==
    /\ phase = "translate" /\ inst \in DOMAIN fn.code[block]
    /\ Current.kind = "phi"
    /\ count' = count + 1
    /\ phis' = Append(phis, [data |-> Current.data, mux |-> count'])
    /\ Emit(block, <<Uop("mv", Current.res, <<count'>>, NoImm)>>)
    /\ inst' = inst + 1
    /\ UNCHANGED <<fn, phase, block, lui, fimm, datum>>

NextBlock_KeepsCaches ==
    /\ phase = "translate" /\ inst \notin DOMAIN fn.code[block]
    /\ block + 1 \in Blocks
    /\ block' = block + 1
    /\ inst' = 1
    /\ UNCHANGED <<fn, phase, uops, count, lui, fimm, phis, datum>>

NextBlock ==
    /\ phase = "translate" /\ inst \notin DOMAIN fn.code[block]
    /\ block + 1 \in Blocks
    /\ block' = block + 1
    /\ inst' = 1
    /\ lui' = <<>> /\ fimm' = <<>>
    /\ UNCHANGED <<fn, phase, uops, count, phis, datum>>

(* After the last block, dephi with the context as it is. *)
StartDephi ==
    /\ phase = "translate" /\ inst \notin DOMAIN fn.code[block]
    /\ block + 1 \notin Blocks
    /\ phase' = "dephi"
    /\ UNCHANGED <<fn, block, inst, uops, count, lui, fimm, phis, datum>>

(* TempPop, the copy, RecoverUops, for one datum; then both caches are     *)
(* cleared.                                                                *)
Copy ==
    /\ phase = "dephi" /\ datum[1] \in DOMAIN phis
    /\ LET phi == phis[datum[1]]
           d == phi.data[datum[2]]
           l == IF IsConst(d.arg) THEN Load(d.arg, phi.mux, count + 1)
                ELSE [uops |-> <<Uop("mv", phi.mux, <<d.arg.key>>, NoImm)>>, new |-> 0]
       IN  /\ uops' = [uops EXCEPT ![d.from] = Front(@) \o l.uops \o <<Last(@)>>]
           /\ count' = count + l.new
           /\ datum' = IF datum[2] = Len(phi.data) THEN <<datum[1] + 1, 1>> ELSE <<datum[1], datum[2] + 1>>
    /\ lui' = <<>> /\ fimm' = <<>>
    /\ UNCHANGED <<fn, phase, block, inst, phis>>

Finish ==
    /\ phase = "dephi" /\ datum[1] \notin DOMAIN phis
    /\ phase' = "done"
    /\ UNCHANGED <<fn, block, inst, uops, count, lui, fimm, phis, datum>>

Next == TranslatePlain \/ TranslateConst \/ TranslatePhi \/ NextBlock \/ StartDephi \/ Copy \/ Finish

Spec == Init /\ [][Next]_vars

-----------------------------------------------------------------------------

(* Executions, cut off after MaxWalk blocks.                               *)
IsWalk(w) == w[1] = 1 /\ \A k \in 1 .. Len(w) - 1 : w[k + 1] \in fn.succ[w[k]]
Walks == {w \in UNION {[1 .. n -> Blocks] : n \in 1 .. MaxWalk} : IsWalk(w)}

(* Values are terms: a tag, a number and the values it was made from.      *)
Term(tag, n, from) == <<tag, n, from>>
Entry(v) == Term("entry", v, <<>>)
ConstTerm(c) == Term(c.cls, 100 * c.key + c.low, <<>>)

Value(env, a) == IF a.cls = "var" THEN env[a.key] ELSE ConstTerm(a)

(* The first n instructions of a block in SSA.  The phis are taken         *)
(* together when the block is entered, from the values at the end of the   *)
(* block before.                                                           *)
Meaning(a, i) ==
    LET args == [k \in DOMAIN i.args |-> Value(a.env, i.args[k])]
    IN  CASE i.kind = "op"  -> [env |-> [a.env EXCEPT ![i.res] = Term("op", i.res, args)], read |-> a.read]
          [] i.kind = "end" -> [env |-> a.env, read |-> Append(a.read, args)]
          [] OTHER          -> a

Meant(a, code, n) ==
    LET After[k \in 0 .. n] == IF k = 0 THEN a ELSE Meaning(After[k - 1], code[k]) IN After[n]

Given(i, from) == (CHOOSE d \in Range(i.data) : d.from = from).arg

Entered(env, b, from) ==
    [v \in DOMAIN env |->
        LET mine == {k \in DOMAIN fn.code[b] : fn.code[b][k].kind = "phi" /\ fn.code[b][k].res = v}
        IN  IF mine = {} THEN env[v] ELSE Value(env, Given(fn.code[b][CHOOSE k \in mine : TRUE], from))]

(* What the end of every block of a walk reads, in SSA.                    *)
Ssa(w) ==
    LET After[n \in 0 .. Len(w)] ==
            IF n = 0 THEN [env |-> [v \in 1 .. fn.vars |-> Entry(v)], read |-> <<>>]
            ELSE LET a == After[n - 1]
                     env == IF n = 1 THEN a.env ELSE Entered(a.env, w[n], w[n - 1])
                 IN  Meant([env |-> env, read |-> a.read], fn.code[w[n]], Len(fn.code[w[n]]))
    IN  After[Len(w)].read

(* The same of the uops.                                                   *)
Result(env, u) ==
    CASE u.do = "li"   -> ConstTerm(u.imm)
      [] u.do = "lui"  -> Term("upper", u.imm.key, <<>>)
      [] u.do = "addi" -> IF env[u.regs[1]] = Term("upper", u.imm.key, <<>>) THEN ConstTerm(u.imm)
                          ELSE Term("sum", u.imm.low, <<env[u.regs[1]]>>)
      [] u.do = "mv"   -> env[u.regs[1]]
      [] OTHER         -> Term("op", u.res, [k \in DOMAIN u.regs |-> env[u.regs[k]]])

Executed(a, u) ==
    IF u.do = "end" THEN [env |-> a.env, read |-> Append(a.read, [k \in DOMAIN u.regs |-> a.env[u.regs[k]]])]
    ELSE [env |-> [a.env EXCEPT ![u.res] = Result(a.env, u)], read |-> a.read]

Ran(a, code) ==
    LET After[k \in 0 .. Len(code)] == IF k = 0 THEN a ELSE Executed(After[k - 1], code[k]) IN After[Len(code)]

Machine(w) ==
    LET After[n \in 0 .. Len(w)] ==
            IF n = 0 THEN [env |-> [v \in 1 .. count |-> Entry(v)], read |-> <<>>]
            ELSE Ran(After[n - 1], uops[w[n]])
    IN  After[Len(w)].read

(* On every execution the uops compute what the function computes: phis    *)
(* that read one another, copies in blocks with two successors, values     *)
(* still needed after the phi has changed, constants shared by uops of a   *)
(* block and not across blocks.                                            *)
SameExecutions == phase = "done" => \A w \in Walks : Machine(w) = Ssa(w)

(* The caches speak of the block at hand: what they name was put into that *)
(* register by the last uop that writes it, earlier in the same block.     *)
PutBy(r, do, key) ==
    \E k \in DOMAIN uops[block] :
        /\ uops[block][k].res = r /\ uops[block][k].do = do /\ uops[block][k].imm.key = key
        /\ \A j \in k + 1 .. Len(uops[block]) : uops[block][j].res /= r

CachesAreLocal ==
    phase = "translate" =>
        /\ \A key \in DOMAIN lui : PutBy(lui[key], "lui", key)
        /\ \A key \in DOMAIN fimm : PutBy(fimm[key], "li", key)
=============================================================================
