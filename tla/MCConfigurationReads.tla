------------------------- MODULE MCConfigurationReads -------------------------
(* ConfigurationReads over every way three objects can name their parents,   *)
(* right and wrong, with equal and different codes and types, and over a     *)
(* few snapshots of devices and tags: the development snapshot, and others   *)
(* that name objects and devices rightly and wrongly or have one field of a  *)
(* device or of a tag that may be unsound.                                   *)
EXTENDS ConfigurationReads

Objects(ids, parents, codes, types) ==
  [i \in 1..3 |-> [id |-> ids[i], parent_id |-> parents[i], code |-> codes[i],
                   type |-> types[i], named |-> TRUE]]

Codes == {<<1, 1, 1>>, <<2, 2, 1>>}
Types == {<<"Custom", "Custom", "Custom">>, <<"Room", "Building", "EquipmentGroup">>}

ObjectSnapshots ==
  {[objects |-> Objects(<<1, 2, 3>>, parents, codes, types), devices |-> <<>>, tags |-> <<>>] :
     parents \in [1..3 -> {Absent, Blank, 1, 2, 3}], codes \in Codes, types \in Types}
  \cup {[objects |-> Objects(<<1, 2, 1>>, <<Absent, 1, Absent>>, <<1, 1, 1>>,
                             <<"Custom", "Custom", "Custom">>),
         devices |-> <<>>, tags |-> <<>>]}

TwoObjects ==
  SubSeq(Objects(<<1, 2, 3>>, <<Absent, 1, 1>>, <<1, 1, 1>>,
                 <<"Site", "Line", "Line">>), 1, 2)

DeviceOf(id, object, state) ==
  [id |-> id, object_id |-> object, code |-> 1, state |-> state, named |-> TRUE,
   protocol |-> "Snmp", connection |-> [protocol |-> "Snmp", has_endpoint |-> TRUE]]
TagOf(id, object, device, enabled) ==
  [id |-> id, object_id |-> object, device_id |-> device, code |-> 4 - id,
   is_enabled |-> enabled, named |-> TRUE, type |-> "CalculatedTag",
   value_type |-> "Double", has_address |-> FALSE, transform |-> "finite",
   extraction |-> "none"]

DeviceSnapshots ==
  {[objects |-> TwoObjects,
    devices |-> <<DeviceOf(3, 1, "Active"), DeviceOf(2, object, "Disabled"),
                  DeviceOf(1, 1, "Maintenance")>>,
    tags |-> <<TagOf(1, 1, 3, TRUE), TagOf(2, tag_object, device, FALSE),
               TagOf(3, 1, Absent, TRUE)>>] :
     object, tag_object \in {Absent, Blank, 1, 2, 5}, device \in {Absent, Blank, 2, 4}}

Development == DevelopmentSnapshot

DeviceEdits ==
  {[Development EXCEPT !.devices[1] = d] :
     d \in UNION {
       {[Development.devices[1] EXCEPT !.named = FALSE]},
       {[Development.devices[1] EXCEPT !.protocol = protocol, !.connection.has_endpoint = e] :
          protocol \in DeviceProtocols, e \in BOOLEAN},
       {[Development.devices[1] EXCEPT !.connection = [protocol |-> "Simulator",
                                                       has_endpoint |-> FALSE],
                                       !.protocol = "Simulator", !.state = state] :
          state \in DeviceStates},
       {[Development.devices[1] EXCEPT !.object_id = Absent, !.state = state] :
          state \in DeviceStates}}}

TagEdits ==
  {[Development EXCEPT !.tags[1] = t] :
     t \in UNION {
       {[Development.tags[1] EXCEPT !.named = FALSE]},
       {[Development.tags[1] EXCEPT !.type = type, !.object_id = object, !.device_id = device,
                                    !.has_address = addressed] :
          type \in TagTypes, object \in {Absent, 4, 1}, device \in {Absent, 2},
          addressed \in BOOLEAN},
       {[Development.tags[1] EXCEPT !.transform = transform] :
          transform \in {"zero scale", "not finite"}},
       {[Development.tags[1] EXCEPT !.extraction = extraction, !.value_type = type] :
          extraction \in {"in range", "out of range"}, type \in ValueTypes}}}

MCSnapshots == ObjectSnapshots \cup DeviceSnapshots \cup DeviceEdits \cup TagEdits

(* The snapshot of the source lets its server start.                         *)
ASSUME DevelopmentSnapshotServes == SnapshotIsValid(DevelopmentSnapshot)

AskObjects(id, parent, children, limit) ==
  [list |-> "objects", id |-> id, parent_id |-> parent, object_id |-> Absent,
   device_id |-> Absent, state |-> "", include_children |-> children,
   include_disabled |-> FALSE, limit |-> limit]

Ask(list, object, device, state, disabled, limit) ==
  [list |-> list, id |-> Absent, parent_id |-> Absent, object_id |-> object,
   device_id |-> device, state |-> state, include_children |-> FALSE,
   include_disabled |-> disabled, limit |-> limit]

MCQueries ==
  {AskObjects(id, parent, children, limit) :
     id \in {Absent, 2}, parent \in {Absent, 1}, children \in BOOLEAN, limit \in {0, 2}}
  \cup
  {Ask("devices", object, Absent, state, disabled, 5) :
     object \in {Absent, 1}, state \in {"", "Disabled"}, disabled \in BOOLEAN}
  \cup
  {Ask("tags", object, device, "", disabled, 1) :
     object \in {Absent, 1}, device \in {Absent, 2}, disabled \in BOOLEAN}
=============================================================================
