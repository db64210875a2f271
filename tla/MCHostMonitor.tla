--------------------------- MODULE MCHostMonitor ----------------------------
(* A small instance of HostMonitor: every way through the test of a row. *)
EXTENDS HostMonitor

Healthy  == [vm_status |-> "ACTIVE", vm_power_status |-> "RUNNING"]
Building == [vm_status |-> "BUILD", vm_power_status |-> "NOSTATUS"]
Broken   == [vm_status |-> "PAUSED", vm_power_status |-> "RUNNING"]
Blocked  == [vm_status |-> "ACTIVE", vm_power_status |-> "BLOCKED"]
Stopped  == [vm_status |-> "STOPPED", vm_power_status |-> "SHUTDOWN"]

AllConditions == {Healthy, Building, Broken, Blocked, Stopped}
============================================================================
