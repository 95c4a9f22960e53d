----------------------------- MODULE OneShotParser -----------------------------
(***************************************************************************)
(* What parse() promises: the messages of a stream are what an interpreter *)
(* of the unit reads that has the whole stream before it, stores members   *)
(* by value and never runs short of memory.  It is deterministic but for   *)
(* Abandon, which forgets a message that is not complete, so what it       *)
(* delivers depends on the stream alone.                                   *)
(***************************************************************************)
EXTENDS UnitProgram

CONSTANTS Inputs

VARIABLES
    input,      \* the stream
    start,      \* offset of the current message
    label,      \* item to read next
    pos,        \* offset of that item
    num, data,  \* members read so far: integers, and bytes as sequences
    msgs        \* messages delivered

vars == <<input, start, label, pos, num, data, msgs>>

Begin(p) == label' = 1 /\ pos' = p /\ num' = NoMembers /\ data' = NoMembers

Init ==
    /\ input \in Inputs
    /\ start = 0 /\ msgs = <<>>
    /\ label = 1 /\ pos = 0 /\ num = NoMembers /\ data = NoMembers

ReadItem ==
    /\ label \in Labels
    /\ LET i == label
           n == ItemLen(i, num)
           bytes == Slice(input, pos, n)
       IN /\ pos + n <= Len(input)
          /\ pos' = pos + n
          /\ num' = CASE Program[i].op = "int" -> Put(num, i, ParseInt(Program[i].order, bytes))
                      [] Program[i].op = "var" -> Put(num, i, Truncated(ExprOf(i, num), Program[i].width))
                      [] OTHER -> num
          /\ data' = IF Program[i].op \in {"bytes", "range"} THEN Put(data, i, bytes) ELSE data
          /\ label' = Jump(i, num')
    /\ UNCHANGED <<input, start, msgs>>

Deliver ==
    /\ label = End
    /\ msgs' = Append(msgs, [num |-> num, data |-> data])
    /\ start' = pos
    /\ Begin(pos)
    /\ UNCHANGED input

Abandon ==
    /\ Begin(start)
    /\ UNCHANGED <<input, start, msgs>>

Next == ReadItem \/ Deliver \/ Abandon

Spec == Init /\ [][Next]_vars
================================================================================
