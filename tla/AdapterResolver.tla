-------------------------- MODULE AdapterResolver --------------------------
(***************************************************************************)
(* NetworkAdapterResolver::resolve(): what it takes and releases, step by  *)
(* step, when some of its system and libpci calls fail.  The log has       *)
(* <<"+", r>> where the resource r is taken and <<"-", r>> where it is     *)
(* released.                                                               *)
(***************************************************************************)
EXTENDS Sequences

Steps == {"socket", "ioctl", "bus_info", "parse", "alloc", "device", "fill"}

Within(r, log) == <<<<"+", r>>>> \o log \o <<<<"-", r>>>>

\* The socket is closed when the function is left, by return or by throw.
GetBusInfo(fails) ==
  IF "socket" \in fails THEN [ok |-> FALSE, log |-> <<>>]
  ELSE [ok |-> fails \cap {"ioctl", "bus_info"} = {}, log |-> Within("fd", <<>>)]

\* Mutant: the throw after pci_fill_info leaves the device behind.
LookupAdapterNameThrow(fails) ==
  IF fails \cap {"parse", "alloc"} # {} THEN [ok |-> FALSE, log |-> <<>>]
  ELSE IF "device" \in fails THEN [ok |-> FALSE, log |-> Within("access", <<>>)]
  ELSE IF "fill" \in fails
         THEN [ok |-> FALSE, log |-> Within("access", <<<<"+", "device">>>>)]
         ELSE [ok |-> TRUE, log |-> Within("access", Within("device", <<>>))]

\* pci_cleanup runs by itself, pci_free_dev is called on both ways out.
LookupAdapterName(fails) ==
  IF fails \cap {"parse", "alloc"} # {} THEN [ok |-> FALSE, log |-> <<>>]
  ELSE IF "device" \in fails THEN [ok |-> FALSE, log |-> Within("access", <<>>)]
  ELSE [ok |-> "fill" \notin fails,
        log |-> Within("access", Within("device", <<>>))]

\* ok is FALSE for the empty name that any exception leads to.
Resolve(fails) ==
  LET bus == GetBusInfo(fails)
      name == LookupAdapterName(fails)
  IN  IF ~bus.ok THEN bus ELSE [ok |-> name.ok, log |-> bus.log \o name.log]
=============================================================================
