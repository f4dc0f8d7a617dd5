---------------------------- MODULE MCSupervisor ----------------------------
EXTENDS Supervisor

CoreSigned == {"v1", "v2"}
CoreBinaries == CoreSigned \cup {"forged"}
=============================================================================
