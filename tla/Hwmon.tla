------------------------------- MODULE Hwmon -------------------------------
(***************************************************************************)
(* TemperatureCollector: the scan of the hwmon directory in its            *)
(* constructor, and collect().  A directory is the sequence of its entries *)
(* as the iterator gives them.  An entry of hwmon is a device with a name  *)
(* and a directory, or [name |-> Error] where the iteration throws; an     *)
(* entry of a device is                                                    *)
(*   "zone"     a temp*_label with an input that can be opened             *)
(*   "label"    one whose label cannot be read, "input" whose input is     *)
(*              missing, "open" whose input cannot be opened               *)
(*   "unnumbered" one without a number behind temp                         *)
(*   "other"    any other file                                             *)
(*   "error"    the iteration throws                                       *)
(* A zone is the position of its device and its own in that directory.     *)
(***************************************************************************)
EXTENDS Naturals, Sequences, SequencesExt

CONSTANTS
  Error,   \* the name of the entry at which the iteration throws
  NoName,  \* the name of a device without one
  Thrown   \* the constructor throws: there is no collector

HwmonThrows(devices) == \E d \in DOMAIN devices : devices[d].name = Error

\* sensorToPath: the last device of each configured name.
SensorToPath(devices, sensors) ==
  LET Named(s) == {d \in DOMAIN devices : devices[d].name = s}
  IN  [s \in {x \in sensors : Named(x) # {}} |->
         SelectLastInSeq(devices, LAMBDA device : device.name = s)]

\* Mutant: an unreadable label does not end the turn of the loop.
ZonesOfAny(device) ==
  {z \in DOMAIN device.dir :
     /\ device.dir[z] \in {"zone", "label"}
     /\ \A y \in 1 .. z : device.dir[y] # "error"}

\* The zones registered before the directory ends or cannot be read further.
ZonesOf(device) ==
  {z \in DOMAIN device.dir :
     /\ device.dir[z] = "zone"
     /\ \A y \in 1 .. z : device.dir[y] # "error"}

\* std::stoi throws, which is not a filesystem_error: nobody catches it.
StoiThrows(device) ==
  \E z \in DOMAIN device.dir :
    /\ device.dir[z] = "unnumbered"
    /\ \A y \in 1 .. z : device.dir[y] # "error"

\* tempZones_, whose order across sensors is that of a hash table.
TempZones(devices, sensors) ==
  LET path == SensorToPath(devices, sensors)
  IN  CASE HwmonThrows(devices) -> {}
        [] ~HwmonThrows(devices) /\ (\E s \in DOMAIN path : StoiThrows(devices[path[s]])) ->
             Thrown
        [] OTHER ->
             UNION {{<<path[s], z>> : z \in ZonesOf(devices[path[s]])} : s \in DOMAIN path}

\* collect(): a zone that cannot be read or parsed now is left out.
Readings(zones, failing) == IF zones = Thrown THEN Thrown ELSE zones \ failing
=============================================================================
