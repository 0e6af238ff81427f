------------------------------- MODULE MCSensor -------------------------------
EXTENDS Sensor

Open == Resolved(<<>>)
Shut == Resolved([g \in Groups |-> "blocked"])
Conf(e, c, s, b) == [enforces |-> e, closed |-> c, structural |-> s, breaker |-> b]
MCConfigs ==
    {Conf(TRUE, Open, "flag", FALSE), Conf(TRUE, Shut, "block", TRUE),
     Conf(TRUE, Resolved([controls |-> "approval_required"]), "flag", TRUE),
     Conf(FALSE, Open, "block", TRUE), Conf(FALSE, Shut, "flag", TRUE)}
MCDecisions == {"allowed", "approval_required"}
===============================================================================
