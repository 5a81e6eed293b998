------------------------- MODULE MCActionExecution -------------------------
(* One item with a reply to draft and send, one with a thread to archive.    *)
EXTENDS ActionExecution, TLC

CONSTANTS i1, i2, draft1, send1, archive2

MCActions == {draft1, send1, archive2}
RequestSymmetry == Permutations(Requests)
MCNoSend == {draft1, archive2}
MCItem == {i1}
MCOne == {draft1, send1}
MCItems == {i1, i2}
MCItemOf == [a \in Actions |-> IF a = archive2 THEN i2 ELSE i1]
MCKindOf == [a \in Actions |-> IF a = archive2 THEN "archive" ELSE IF a = send1 THEN "send" ELSE "draft"]
=============================================================================
