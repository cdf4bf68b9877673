------------------------------ MODULE MCServers ------------------------------
EXTENDS Servers

MCPaths == {<<FALSE, v>> : v \in {1}} \cup {<<TRUE, v>> : v \in {1, 2}}
=============================================================================
