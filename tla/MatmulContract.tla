---------------------------- MODULE MatmulContract ----------------------------
(***************************************************************************)
(* What the matrix multiply unit promises the controller: each command it  *)
(* takes is answered once, and when the answer comes the output region     *)
(* holds the product A x B, or A x transpose(B), summed over the whole of  *)
(* K and with nothing counted twice or left over from an earlier command.  *)
(***************************************************************************)
EXTENDS Integers

CONSTANTS BUS_EL, NONE

VARIABLES cmd,      \* the command being shown, or NONE
          pending,  \* the command taken and not yet answered, or NONE
          answer    \* the output region, in the cycle of the answer, or NONE

contractVars == <<cmd, pending, answer>>

\* Row i and column j of a row-major matrix at base.
At(base, stride, i, j) == <<base + i * stride + j \div BUS_EL, j % BUS_EL>>

Product(c) ==
  [x \in (0 .. c.m - 1) \X (0 .. c.n - 1) |->
     {<<At(c.a_base, c.a_stride, x[1], kk),
        IF c.op = "OP_MATMUL_T" THEN At(c.b_base, c.b_stride, x[2], kk)
                                ELSE At(c.b_base, c.b_stride, kk, x[2])>> :
        kk \in 0 .. c.k - 1}]

Init == cmd = NONE /\ pending = NONE /\ answer = NONE

Show == /\ cmd = NONE /\ pending = NONE /\ answer = NONE /\ cmd' # NONE
        /\ UNCHANGED <<pending, answer>>

Take == /\ cmd # NONE /\ pending = NONE
        /\ pending' = cmd /\ cmd' = NONE /\ UNCHANGED answer

Answer == /\ pending # NONE
          /\ answer' = Product(pending) /\ pending' = NONE /\ UNCHANGED cmd

Rest == answer # NONE /\ answer' = NONE /\ UNCHANGED <<cmd, pending>>

Next == Show \/ Take \/ Answer \/ Rest

Spec == Init /\ [][Next]_contractVars
FairSpec == Spec /\ WF_contractVars(Take) /\ WF_contractVars(Answer)
=============================================================================
