-------------------------- MODULE ServerTables --------------------------
(* The transitions of the servers, as they give them to their state         *)
(* machines, and what a run control's command is made of.                   *)

(* The state machines: command, from, to. *)

(* Slip: a server that has run cannot run again before it is configured. *)
StartsOnce == {<<"START", "CONFIGURED", "RUNNING">>}
DifStarts == { <<"START", "CONFIGURED", "RUNNING">>, <<"START", "STOPPED", "RUNNING">> }

DifTable == DifStarts \cup
    { <<"SCAN", "CREATED", "SCANNED">>,
      <<"INITIALISE", "SCANNED", "INITIALISED">>,
      <<"REGISTERDB", "INITIALISED", "DBREGISTERED">>,
      <<"REGISTERDB", "DBREGISTERED", "DBREGISTERED">>,
      <<"REGISTERDB", "CONFIGURED", "DBREGISTERED">>,
      <<"CONFIGURE", "DBREGISTERED", "CONFIGURED">>,
      <<"CONFIGURE", "CONFIGURED", "CONFIGURED">>,
      <<"CONFIGURE", "STOPPED", "CONFIGURED">>,
      <<"STOP", "RUNNING", "STOPPED">>,
      <<"DESTROY", "STOPPED", "CREATED">>,
      <<"DESTROY", "CONFIGURED", "CREATED">> }

CccTable ==
    { <<"OPEN", "CREATED", "OPENED">>,
      <<"INITIALISE", "OPENED", "INITIALISED">>,
      <<"CONFIGURE", "INITIALISED", "CONFIGURED">>,
      <<"START", "CONFIGURED", "RUNNING">>,
      <<"STOP", "RUNNING", "CONFIGURED">>,
      <<"STOP", "CONFIGURED", "CONFIGURED">> }

MdccTable ==
    { <<"OPEN", "CREATED", "PAUSED">>,
      <<"RESUME", "PAUSED", "RUNNING">>,
      <<"PAUSE", "RUNNING", "PAUSED">>,
      <<"PAUSE", "PAUSED", "PAUSED">> }

BuilderTable ==
    { <<"INITIALISE", "CREATED", "INITIALISED">>,
      <<"CONFIGURE", "INITIALISED", "CONFIGURED">>,
      <<"START", "CONFIGURED", "RUNNING">>,
      <<"STOP", "RUNNING", "CONFIGURED">> }

DbTable ==
    { <<"DOWNLOAD", "CREATED", "DOWNLOAD">>,
      <<"NEWRUN", "DOWNLOAD", "DOWNLOAD">> }

TdcTable ==
    { <<"INITIALISE", "CREATED", "INITIALISED">>,
      <<"CONFIGURE", "INITIALISED", "CONFIGURED">>,
      <<"CONFIGURE", "CONFIGURED", "CONFIGURED">>,
      <<"START", "CONFIGURED", "RUNNING">>,
      <<"STOP", "RUNNING", "CONFIGURED">>,
      <<"DESTROY", "CONFIGURED", "CREATED">>,
      <<"DESTROY", "INITIALISED", "CREATED">> }

(* A stage of a command: one post, to each of some servers. *)
Stage(servers, post) == [to |-> servers, post |-> post]
=========================================================================
