-------------------------- MODULE UnboundedSerializer --------------------------
(***************************************************************************)
(* What serialize() promises: into a buffer without end, it writes the     *)
(* fields of the unit one behind the other, after bringing the lengths and *)
(* what depends on them up to date.                                        *)
(***************************************************************************)
EXTENDS SerializerProgram

VARIABLES
    num, data, range, in_buf,   \* the unit, and the buffer its ranges point into
    part,                       \* "idle", "lengths", "variables", "fields" or "done"
    at,                         \* where in that part
    out                         \* what is written

unit == <<num, data, range>>
vars == <<unit, in_buf, part, at, out>>

Init == part = "idle" /\ at = 0 /\ out = <<>>

\* The unit is the application's while it is not being written.
Edit == part = "idle" /\ UNCHANGED <<range, in_buf, part, at, out>>

\* The buffer that ranges point into is never ours.
OverwriteInput == UNCHANGED <<unit, part, at, out>>

Begin ==
    /\ part = "idle" /\ part' = "lengths" /\ at' = 1 /\ out' = <<>>
    /\ UNCHANGED <<unit, in_buf>>

LengthStep ==
    /\ part = "lengths" /\ at <= Len(LengthsOf)
    /\ num' = LengthUpdated(at, num, data)
    /\ at' = at + 1
    /\ UNCHANGED <<data, range, in_buf, part, out>>

VariableStep ==
    /\ part = "variables" /\ at <= Len(Variables)
    /\ num' = Serialized(at, num)
    /\ at' = at + 1
    /\ UNCHANGED <<data, range, in_buf, part, out>>

NextPart ==
    /\ \/ part = "lengths" /\ at > Len(LengthsOf) /\ part' = "variables"
       \/ part = "variables" /\ at > Len(Variables) /\ part' = "fields"
    /\ at' = 1
    /\ UNCHANGED <<unit, in_buf, out>>

WriteField ==
    /\ part = "fields" /\ at \in Labels
    /\ out' = out \o Wire(at, num, data, range, in_buf)
    /\ at' = Jump(at, num)
    /\ UNCHANGED <<unit, in_buf, part>>

Done ==
    /\ part = "fields" /\ at = End
    /\ part' = "done" /\ at' = 0
    /\ UNCHANGED <<unit, in_buf, out>>

\* The application takes what is written, or drops what is not complete.
Release ==
    /\ part \in {"fields", "done"}
    /\ part' = "idle" /\ at' = 0 /\ out' = <<>>
    /\ UNCHANGED <<unit, in_buf>>

Next ==
    \/ Edit \/ OverwriteInput \/ Begin \/ LengthStep \/ VariableStep \/ NextPart
    \/ WriteField \/ Done \/ Release

Spec == Init /\ [][Next]_vars
================================================================================
