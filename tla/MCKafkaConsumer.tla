-------------------------- MODULE MCKafkaConsumer --------------------------
(* Small instances of KafkaConsumer. *)
EXTENDS KafkaConsumer, TLC

MCMessages == <<"good", "bad", "good", "good">>

\* The notification and watch commands, the saga topics, and the releases.
MCSettings == {[classifies |-> TRUE, deadLetters |-> TRUE],
               [classifies |-> TRUE, deadLetters |-> FALSE],
               [classifies |-> FALSE, deadLetters |-> FALSE]}
=============================================================================
