------------------------------- MODULE MCMail -------------------------------
(* Three players of whom 1 is God, and one scenario for each part of the mailer. *)
EXTENDS Mail

MCScenarios ==
    {[ops |-> {"destroy", "restart"}, who |-> {2, 3}, lists |-> {<<3>>, <<2, 3>>}, steps |-> 6],
     [ops |-> {"file", "restart"}, who |-> {1, 2}, lists |-> {<<2>>, <<2, 2>>}, steps |-> 5],
     [ops |-> {"alias", "destroy", "restart"}, who |-> {1, 3}, lists |-> {<<2, 3>>, <<Alias>>},
      steps |-> 5],
     [ops |-> {"draft", "reply"}, who |-> {2, 3}, lists |-> {<<3>>, <<2, -1>>}, steps |-> 5],
     [ops |-> {"destroy", "file", "admin"}, who |-> {1, 2}, lists |-> {<<1, 2>>}, steps |-> 5],
     [ops |-> {"destroy", "draft"}, who |-> {1, 3}, lists |-> {<<2>>, <<3>>}, steps |-> 5]}
=============================================================================
