---------------------------- MODULE MCEmailReports ----------------------------
EXTENDS EmailReports

MCDefault == [at |-> <<2, 3>>, enabled |-> TRUE, parses |-> TRUE]
MCSchedules == {[at |-> <<3, 2>>, enabled |-> TRUE, parses |-> TRUE],
                [at |-> <<2, 2>>, enabled |-> FALSE, parses |-> TRUE],
                [at |-> <<2, 3>>, enabled |-> TRUE, parses |-> FALSE]}

=============================================================================
