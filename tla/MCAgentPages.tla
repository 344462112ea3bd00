---------------------------- MODULE MCAgentPages ----------------------------
\* One stressed preset for each page, beside the calm state it opens with.
EXTENDS AgentPages

MCTried ==
  [terra |-> {"spiral"}, bridge |-> {"wormhole"}, governance |-> {"beanstalk"},
   aviation |-> {"mcasShape"}, fund |-> {"blackSwan"}]
=============================================================================
