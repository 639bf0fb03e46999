----------------------------- MODULE MCPeephole -----------------------------
(***************************************************************************)
(* Blocks of up to MaxLength instructions as the backend emits them: the   *)
(* stack pointer is never written, and what is loaded is not the address   *)
(* of another access of its width (NoChase).                               *)
(***************************************************************************)
EXTENDS Peephole

CONSTANTS sp, p, t, u, MaxLength

I(op, rd, rs, rt, imm) == [op |-> op, rd |-> rd, rs |-> rs, rt |-> rt, imm |-> imm]
Load(op, rd, base, imm) == I(op, rd, base, sp, imm)
Store(op, rs, base, imm) == I(op, sp, rs, base, imm)

(* p is a pointer, kept in two stack slots; t and u hold data.  The load   *)
(* of p through itself is a pointer used for the last time.                *)
MCInstructions ==
    {Load("ld", p, sp, 0), Load("ld", p, sp, 8), Store("sd", p, sp, 0), Store("sd", p, sp, 8),
     Load("lw", t, p, 0), Load("lw", t, p, 4), Store("sw", t, p, 0), Store("sw", t, p, 4),
     Load("lw", p, p, 0), Store("sw", u, p, 0), Load("flw", u, p, 4), Store("fsw", u, p, 0),
     I("other", t, t, u, 1), I("other", u, u, sp, 2)}

MCBlocks == {s \in UNION {[1 .. n -> MCInstructions] : n \in 1 .. MaxLength} : NoChase(s)}

=============================================================================
