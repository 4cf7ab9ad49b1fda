---------------------------- MODULE MCPollingCycle ----------------------------
(* PollingCycle with two pollers, two simulators that replace each other and *)
(* an external driver whose batch limit is below one group's size.           *)
EXTENDS PollingCycle

Task(tag, enabled, address) == [tag |-> tag, is_enabled |-> enabled, has_address |-> address]
GroupOf(protocol, mode, max, tasks) ==
  [protocol |-> protocol, mode |-> mode, max_batch_size |-> max, ready |-> TRUE,
   tasks |-> tasks]

Three == <<Task("t0", FALSE, TRUE), Task("t1", TRUE, TRUE), Task("t2", TRUE, TRUE)>>

MCGroup ==
  [sim_batch |-> GroupOf("Simulator", "Batch", 2, Three),
   sim_single |-> GroupOf("Simulator", "Batch", 1, Three),
   ext_batch |-> GroupOf("ModbusTcp", "Batch", 2, Three),
   ext_limit |-> GroupOf("ModbusTcp", "Batch", 4, <<Task("t1", TRUE, TRUE)>> \o Three),
   empty |-> GroupOf("Simulator", "Batch", 2, <<Task("t3", TRUE, FALSE)>>)]

MCOptions ==
  {[allow_batch_read |-> choice, check_connection_before_polling |-> choice] :
     choice \in BOOLEAN}

MCExternalProtocol == [e1 |-> "ModbusTcp"]
MCExternalBatchSize == [e1 |-> 2]
=============================================================================
