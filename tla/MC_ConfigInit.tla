---------------------------- MODULE MC_ConfigInit ----------------------------
(* One setting of each kind besides Host and Port: every setting of a kind *)
(* is computed by the same code from its own inputs only.                  *)
EXTENDS ConfigInit, TLC

MCDefKeys == {"ProjectsHome"}
MCIntKeys == {"AnsibleJobTimeOut"}
MCOptKeys == {"RabbitMQ"}
MCFlagKeys == {"Debug"}
MCDefault == "ProjectsHome" :> "/opt/tensor/projects"
MCFileVal ==
    ("Host" :> "file_host") @@ ("Port" :> "file_port")
    @@ ("ProjectsHome" :> "file_home") @@ ("RabbitMQ" :> "file_amqp")
MCEnvVal ==
    ("Host" :> "env_host") @@ ("Port" :> "env_port")
    @@ ("ProjectsHome" :> "env_home") @@ ("RabbitMQ" :> "env_amqp")
====
