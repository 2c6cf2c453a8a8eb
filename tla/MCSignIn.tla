---------------------------------- MODULE MCSignIn ----------------------------------
EXTENDS SignIn
MCScenarios == {{"lost"}, {"mongo", "lost"}, {"mongo", "expiry", "one"},
                {"faults"}, {"expiry", "one"}, {"ops", "block", "one"}}
================================================================================
