---------------------------------- MODULE MCGateway ----------------------------------
EXTENDS Gateway
MCScenarios == {{"ban"}, {"kick"}, {"save"}, {"app"}, {"faults"}}
MCDisconnects == {{}}
================================================================================
