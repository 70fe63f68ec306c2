------------------------- MODULE MCWithdrawalEmails -------------------------
(* Bounds of the runs on the mails of a withdrawal request.                *)
EXTENDS WithdrawalEmails

MailsOfOne == {1}
TypesOfOne == [m \in {1} |-> "acknowledgement"]
TargetsOfOne == {"REFUNDED"}

MailsOfTwo == {1, 2}
TypesOfTwo == [m \in {1, 2} |->
                 IF m = 1 THEN "status_update" ELSE "acknowledgement"]
=============================================================================
