-------------------------- MODULE ConfigurationReads --------------------------
(***************************************************************************)
(* The read service behind the HTTP lists and the object tree:             *)
(* DevelopmentConfigurationReadService of scada_app with the tree          *)
(* validation of scada_objects and the tree builder of scada_api.          *)
(*                                                                         *)
(* The service checks its snapshot when it is constructed and answers from *)
(* it for ever after.  A client walks through a list page by page, and may *)
(* start at any offset; each page is a call of its own, filtered and       *)
(* sorted anew.  The snapshot in the code is a literal that changes with   *)
(* development: the model takes any snapshot and lets validation decide.   *)
(*                                                                         *)
(* Ids and codes are numbers, of which only equality and order matter.     *)
(* Absent is a missing optional id, Blank one that is present but empty.   *)
(* Texts are reduced to what validation asks of them: whether id, code and *)
(* name are all there (`named'), whether a connection has a host and a     *)
(* port, whether a tag has an address.                                     *)
(***************************************************************************)
EXTENDS Integers, Sequences, FiniteSets, SequencesExt

CONSTANTS
  Snapshots,     \* the snapshots the service may be constructed with
  Queries,       \* the queries a walk is made with
  Offsets,       \* where a walk may start
  MaxLimit       \* max_limit of ApiReadQueryOptions

Absent == 0
Blank == -1
AnyState == ""

ObjectTypes == {"Site", "Building", "Floor", "Room", "Zone", "Cabinet", "Rack", "Line",
                "EquipmentGroup", "Custom"}
DeviceStates == {"Draft", "Commissioning", "Active", "Maintenance", "Disabled",
                 "OutOfService", "Decommissioned", "Simulation"}

DeviceProtocols == {"ModbusTcp", "Snmp", "Simulator", "Custom"}
TagTypes == {"DeviceTag", "ManualTag", "CalculatedTag", "SystemTag", "VirtualTag",
             "CommandTag", "SimulationTag", "ExternalTag"}
ValueTypes == {"Boolean", "Int32", "Int64", "Float", "Double", "String", "Enum", "Json"}

Object == [id : Nat \ {0}, parent_id : Int, code : Nat, type : ObjectTypes, named : BOOLEAN]
Device == [id : Nat \ {0}, object_id : Int, code : Nat, state : DeviceStates,
           named : BOOLEAN, protocol : DeviceProtocols,
           connection : [protocol : DeviceProtocols, has_endpoint : BOOLEAN]]

(* `transform': scale and offset; `extraction': the bit fields of the      *)
(* address, which may be within their ranges or not.                       *)
Tag == [id : Nat \ {0}, object_id : Int, device_id : Int, code : Nat, is_enabled : BOOLEAN,
        named : BOOLEAN, type : TagTypes, value_type : ValueTypes, has_address : BOOLEAN,
        transform : {"finite", "zero scale", "not finite"},
        extraction : {"none", "in range", "out of range"}]
Snapshot == [objects : Seq(Object), devices : Seq(Device), tags : Seq(Tag)]

(* A filter that is Absent does not filter.  The filter tag_id of tags is a *)
(* second name of id.                                                      *)
Query == [list : {"objects", "devices", "tags"}, id : Nat, parent_id : Nat, object_id : Nat,
          device_id : Nat, state : DeviceStates \cup {AnyState}, include_children : BOOLEAN,
          include_disabled : BOOLEAN, limit : Nat]

ASSUME SnapshotAssumption == \A s \in Snapshots : s \in Snapshot
ASSUME QueryAssumption == Queries \subseteq Query /\ Queries # {}
ASSUME LimitAssumption == MaxLimit \in Nat /\ Offsets \subseteq Nat

VARIABLES
  snapshot,      \* objects_, devices_ and tags_
  service,       \* "constructing", "serving", or "failed" by an exception
  walk,          \* the client: "idle", "walking" or "done"
  query,         \* of the walk
  first,         \* of the walk: the offset it started at
  offset,        \* of the walk: the offset of its next page
  pages,         \* of the walk: history, the pages read so far
  collected      \* of the walk: history, their items

vars == <<snapshot, service, walk, query, first, offset, pages, collected>>

Init ==
  /\ snapshot \in Snapshots
  /\ service = "constructing" /\ walk = "idle"
  /\ query = CHOOSE q \in Queries : TRUE
  /\ first = 0 /\ offset = 0 /\ pages = 0 /\ collected = <<>>

-----------------------------------------------------------------------------
(* Validation of the objects *)

Ids(items) == {items[i].id : i \in DOMAIN items}
Positions(items, id) == {i \in DOMAIN items : items[i].id = id}
First(S) == CHOOSE i \in S : \A j \in S : i <= j
Find(items, id) == items[First(Positions(items, id))]

RootTypes == {"Site", "Building", "Zone", "Line", "EquipmentGroup", "Custom"}

ChildTypes ==
  [type \in ObjectTypes |->
     {"Custom"} \cup
     CASE type = "Site" -> {"Building", "Zone", "Line", "EquipmentGroup"}
       [] type = "Building" -> {"Floor", "Room", "Zone", "Cabinet", "Rack", "Line",
                                "EquipmentGroup"}
       [] type = "Floor" -> {"Room", "Zone", "Cabinet", "Rack", "EquipmentGroup"}
       [] type = "Room" -> {"Zone", "Cabinet", "Rack", "EquipmentGroup"}
       [] type = "Zone" -> {"Cabinet", "Rack", "Line", "EquipmentGroup"}
       [] type = "Line" -> {"Cabinet", "Rack", "EquipmentGroup"}
       [] type = "Cabinet" -> {"Rack", "EquipmentGroup"}
       [] type \in {"Rack", "EquipmentGroup"} -> {"EquipmentGroup"}
       [] type = "Custom" -> ObjectTypes]

(* The ids on the way up from an object: itself, its parent, ...           *)
Chain(objects, start) ==
  LET up[n \in 0..Len(objects) + 1] ==
        CASE n = 0 -> start.id
          [] n = 1 -> start.parent_id
          [] OTHER -> IF up[n - 1] \in Ids(objects)
                        THEN Find(objects, up[n - 1]).parent_id
                        ELSE Absent
  IN up

HasCycle(objects, start) ==
  LET up == Chain(objects, start)
  IN \E m, n \in DOMAIN up : m < n /\ up[m] = up[n] /\ up[m] \notin {Absent, Blank}

Placed(objects, o) ==
  /\ o.named
  /\ o.parent_id = Absent => o.type \in RootTypes
  /\ o.parent_id # o.id
  /\ o.parent_id \in Ids(objects) \cup {Absent, Blank}
  /\ o.parent_id \in Ids(objects) => o.type \in ChildTypes[Find(objects, o.parent_id).type]

ObjectIsValid_CycleUnchecked(objects, o) == Placed(objects, o)
ObjectIsValid(objects, o) == Placed(objects, o) /\ ~HasCycle(objects, o)

Unique(items) == \A i, j \in DOMAIN items : items[i].id = items[j].id => i = j

-----------------------------------------------------------------------------
(* validate_device and validate_tag *)

IsAssigned(id) == id \notin {Absent, Blank}

RequiresEndpoint(protocol) == protocol # "Simulator"

DeviceIsSound(device) ==
  /\ device.named
  /\ device.state # "Draft" => IsAssigned(device.object_id)
  /\ device.protocol = device.connection.protocol
  /\ RequiresEndpoint(device.protocol) => device.connection.has_endpoint

RequiresObject(type) == type # "SystemTag"
RequiresDevice(type) == type \in {"DeviceTag", "CommandTag"}
RequiresAddress(type) == type \in {"DeviceTag", "CommandTag", "ExternalTag"}
SupportsExtraction(value_type) == value_type \notin {"String", "Json"}

TagIsSound(tag) ==
  /\ tag.named
  /\ RequiresObject(tag.type) => IsAssigned(tag.object_id)
  /\ RequiresDevice(tag.type) => IsAssigned(tag.device_id)
  /\ RequiresAddress(tag.type) => tag.has_address
  /\ tag.transform = "finite"
  /\ tag.extraction # "none" =>
       tag.extraction = "in range" /\ SupportsExtraction(tag.value_type)

-----------------------------------------------------------------------------
(* Validation of the snapshot *)

RefersTo(id, items) == id # Absent => id \in Ids(items)

DeviceIsValid(s, device) == DeviceIsSound(device) /\ RefersTo(device.object_id, s.objects)

TagIsValid_ObjectsDiffer(s, tag) ==
  TagIsSound(tag) /\ RefersTo(tag.object_id, s.objects) /\ RefersTo(tag.device_id, s.devices)

TagIsValid(s, tag) ==
  /\ TagIsSound(tag)
  /\ RefersTo(tag.object_id, s.objects) /\ RefersTo(tag.device_id, s.devices)
  /\ tag.device_id # Absent =>
       LET device == Find(s.devices, tag.device_id)
       IN Absent \in {tag.object_id, device.object_id} \/ tag.object_id = device.object_id

SnapshotIsValid(s) ==
  /\ Unique(s.objects) /\ \A o \in Range(s.objects) : ObjectIsValid(s.objects, o)
  /\ Unique(s.devices) /\ \A d \in Range(s.devices) : DeviceIsValid(s, d)
  /\ Unique(s.tags) /\ \A t \in Range(s.tags) : TagIsValid(s, t)

(* The development snapshot of the source, ids and codes in their order.    *)
DevelopmentObjects ==
  LET Node(id, parent_id, code, type) ==
        [id |-> id, parent_id |-> parent_id, code |-> code, type |-> type, named |-> TRUE]
  IN <<Node(5, Absent, 4, "Site"), Node(1, 5, 1, "Building"), Node(4, 1, 2, "Room"),
       Node(3, Absent, 5, "Line"), Node(2, 3, 3, "EquipmentGroup")>>

DevelopmentDevices ==
  LET Unit(id, object_id, code, protocol, state, has_endpoint) ==
        [id |-> id, object_id |-> object_id, code |-> code, state |-> state,
         named |-> TRUE, protocol |-> protocol,
         connection |-> [protocol |-> protocol, has_endpoint |-> has_endpoint]]
  IN <<Unit(2, 4, 1, "ModbusTcp", "Active", TRUE), Unit(4, 1, 4, "Snmp", "Maintenance", TRUE),
       Unit(3, 3, 3, "Simulator", "Simulation", FALSE),
       Unit(1, 2, 2, "ModbusTcp", "Disabled", TRUE)>>

DevelopmentTags ==
  LET Point(id, object_id, device_id, type, value_type, has_address, is_enabled) ==
        [id |-> id, object_id |-> object_id, device_id |-> device_id, code |-> id,
         is_enabled |-> is_enabled, named |-> TRUE, type |-> type,
         value_type |-> value_type, has_address |-> has_address,
         transform |-> "finite", extraction |-> "none"]
  IN <<Point(5, 4, 2, "DeviceTag", "Double", TRUE, TRUE),
       Point(1, 4, 2, "DeviceTag", "Boolean", TRUE, TRUE),
       Point(3, 2, 1, "DeviceTag", "Float", TRUE, TRUE),
       Point(2, 3, Absent, "ManualTag", "Double", FALSE, TRUE),
       Point(4, Absent, Absent, "SystemTag", "String", FALSE, TRUE),
       Point(6, 2, 1, "CommandTag", "Boolean", TRUE, FALSE)>>

DevelopmentSnapshot ==
  [objects |-> DevelopmentObjects, devices |-> DevelopmentDevices, tags |-> DevelopmentTags]

(* A snapshot that is not valid throws, and the server does not start.     *)
Construct ==
  /\ service = "constructing"
  /\ service' = IF SnapshotIsValid(snapshot) THEN "serving" ELSE "failed"
  /\ UNCHANGED <<snapshot, walk, query, first, offset, pages, collected>>

-----------------------------------------------------------------------------
(* Selection *)

Passes(filter, value) == filter = Absent \/ filter = value

(* The loop of the lists: what is wanted, in the order it is stored.       *)
Chosen(items, wanted) ==
  LET kept[n \in 0..Len(items)] ==
        IF n = 0 THEN <<>>
        ELSE kept[n - 1] \o (IF items[n] \in wanted THEN <<items[n]>> ELSE <<>>)
  IN kept[Len(items)]

ObjectMatches(o, q) == Passes(q.id, o.id) /\ Passes(q.parent_id, o.parent_id)

(* One round over all objects, in which an object selected early already   *)
(* counts for those after it.                                              *)
Round(objects, selected) ==
  LET ids[n \in 0..Len(objects)] ==
        IF n = 0 THEN selected
        ELSE LET before == ids[n - 1]
             IN IF objects[n].parent_id \in before THEN before \cup {objects[n].id}
                                                  ELSE before
  IN ids[Len(objects)]

WithChildren_OneRound(objects, selected) == Round(objects, selected)

(* Rounds until one changes nothing; each of the others adds an object.    *)
WithChildren(objects, selected) ==
  LET rounds[n \in 0..Len(objects)] ==
        IF n = 0 THEN selected ELSE Round(objects, rounds[n - 1])
  IN rounds[Len(objects)]

SelectObjects(objects, q) ==
  LET matching == {o.id : o \in {x \in Range(objects) : ObjectMatches(x, q)}}
      ids == IF q.include_children THEN WithChildren(objects, matching) ELSE matching
  IN Chosen(objects, {o \in Range(objects) : o.id \in ids})

IsHidden(device) == device.state \in {"Disabled", "Decommissioned"}

DeviceMatches(device, q) ==
  /\ q.include_disabled \/ ~IsHidden(device)
  /\ Passes(q.id, device.id) /\ Passes(q.object_id, device.object_id)
  /\ q.state \in {AnyState, device.state}

TagMatches(tag, q) ==
  /\ q.include_disabled \/ tag.is_enabled
  /\ Passes(q.id, tag.id)
  /\ Passes(q.object_id, tag.object_id) /\ Passes(q.device_id, tag.device_id)

Select(s, q) ==
  CASE q.list = "objects" -> SelectObjects(s.objects, q)
    [] q.list = "devices" ->
         Chosen(s.devices, {d \in Range(s.devices) : DeviceMatches(d, q)})
    [] q.list = "tags" -> Chosen(s.tags, {t \in Range(s.tags) : TagMatches(t, q)})

-----------------------------------------------------------------------------
(* Read models: to_read_model, for which a blank id is none *)

OptionalId(id) == IF id = Blank THEN Absent ELSE id

ObjectReadModel(o) ==
  [id |-> o.id, parent_id |-> OptionalId(o.parent_id), type |-> o.type, code |-> o.code,
   is_root |-> o.parent_id = Absent]

DeviceReadModel(d) ==
  [id |-> d.id, object_id |-> OptionalId(d.object_id), code |-> d.code,
   protocol |-> d.protocol, state |-> d.state,
   runtime_enabled |-> d.state \in {"Active", "Simulation"},
   has_endpoint |-> d.connection.has_endpoint]

TagReadModel(t) ==
  [id |-> t.id, object_id |-> OptionalId(t.object_id), device_id |-> OptionalId(t.device_id),
   type |-> t.type, value_type |-> t.value_type, code |-> t.code, enabled |-> t.is_enabled]

ToReadModel(list, item) ==
  CASE list = "objects" -> ObjectReadModel(item) [] list = "devices" -> DeviceReadModel(item)
    [] list = "tags" -> TagReadModel(item)

ReadModels(list, items) == [i \in DOMAIN items |-> ToReadModel(list, items[i])]

-----------------------------------------------------------------------------
(* Order and pages *)

Precedes(left, right) ==
  left.code < right.code \/ (left.code = right.code /\ left.id < right.id)

(* sort_by_code_and_id: at each place the item that has as many before it. *)
(* Ids are unique in a valid snapshot, so this order is total and std::sort *)
(* has one result.                                                         *)
Sorted(items) ==
  [k \in DOMAIN items |->
     CHOOSE x \in Range(items) :
       Cardinality({y \in Range(items) : Precedes(y, x)}) = k - 1]

Least(a, b) == IF a < b THEN a ELSE b

NormalizedLimit(limit) ==
  IF limit = 0 \/ MaxLimit = 0 THEN 1 ELSE Least(limit, MaxLimit)

Paginate_OffsetUnbounded(items, from, limit) ==
  LET end == Least(from + NormalizedLimit(limit), Len(items))
  IN [items |-> SubSeq(items, from + 1, end), total |-> Len(items), offset |-> from,
      has_more |-> end < Len(items)]

Paginate(items, from, limit) ==
  LET start == Least(from, Len(items))
      end == Least(start + NormalizedLimit(limit), Len(items))
  IN [items |-> SubSeq(items, start + 1, end), total |-> Len(items), offset |-> start,
      has_more |-> end < Len(items)]

(* read_objects, read_devices and read_tags                                *)
ReadList(s, q, from) == Paginate(Sorted(ReadModels(q.list, Select(s, q))), from, q.limit)

-----------------------------------------------------------------------------
(* The tree: its nodes as their paths from a root *)

IsTreeRoot(o) == o.parent_id \in {Absent, Blank}

(* A node whose id is already on its path is kept, but not expanded.       *)
TreePaths(objects) ==
  LET Active(path) == \A i \in 1..Len(path) - 1 : path[i] # Last(path)
      Children(path) == {o.id : o \in {x \in Range(objects) : x.parent_id = Last(path)}}
      level[n \in 1..Len(objects) + 1] ==
        IF n = 1 THEN {<<o.id>> : o \in {x \in Range(objects) : IsTreeRoot(x)}}
        ELSE UNION {{Append(path, child) : child \in Children(path)} :
                      path \in {p \in level[n - 1] : Active(p)}}
  IN UNION {level[n] : n \in DOMAIN level}

Below(paths, path) == {p \in paths : IsPrefix(path, p)}

NoTree == [nodes |-> {}, count |-> 0]
Tree(nodes) == [nodes |-> nodes, count |-> Cardinality(nodes)]

(* read_object_tree: a subtree by its root, the subtrees under a parent, or *)
(* everything; the last counts the objects instead of the nodes.            *)
ReadObjectTree(objects, id, parent_id) ==
  LET paths == TreePaths(objects)
      At(x) == {p \in paths : Last(p) = x}
  IN CASE id # Absent ->
            IF \E p \in At(id) : Passes(parent_id, Find(objects, id).parent_id)
              THEN Tree(UNION {Below(paths, p) : p \in At(id)})
              ELSE NoTree
       [] id = Absent /\ parent_id # Absent ->
            Tree(UNION {Below(paths, p) \ {p} : p \in At(parent_id)})
       [] OTHER -> [nodes |-> paths, count |-> Len(objects)]

-----------------------------------------------------------------------------
(* The client *)

StartWalk(q, from) ==
  /\ service = "serving" /\ walk # "walking"
  /\ walk' = "walking" /\ query' = q
  /\ first' = from /\ offset' = from /\ pages' = 0 /\ collected' = <<>>
  /\ UNCHANGED <<snapshot, service>>

ReadPage ==
  LET page == ReadList(snapshot, query, offset)
  IN /\ walk = "walking"
     /\ collected' = collected \o page.items /\ pages' = pages + 1
     /\ offset' = page.offset + Len(page.items)
     /\ walk' = IF page.has_more THEN "walking" ELSE "done"
     /\ UNCHANGED <<snapshot, service, query, first>>

Next ==
  \/ Construct
  \/ \E q \in Queries, from \in Offsets : StartWalk(q, from)
  \/ ReadPage

Spec == Init /\ [][Next]_vars

-----------------------------------------------------------------------------
(* Properties *)

TypeOK ==
  /\ snapshot \in Snapshots
  /\ service \in {"constructing", "serving", "failed"}
  /\ walk \in {"idle", "walking", "done"}
  /\ walk # "idle" => service = "serving"
  /\ query \in Queries /\ first \in Offsets \cup {0} /\ pages \in Nat
  /\ offset \in IF pages = 0 THEN {first} ELSE 0..Len(snapshot[query.list])
  /\ Range(collected) \subseteq Range(ReadModels(query.list, snapshot[query.list]))

(* An independent account of what a query asks for.                        *)
Ancestors(o) ==
  {x \in Range(snapshot.objects) :
     \E n \in DOMAIN Chain(snapshot.objects, o) : Chain(snapshot.objects, o)[n] = x.id}

Asked(q) ==
  CASE q.list = "objects" ->
         {o \in Range(snapshot.objects) :
            \E x \in IF q.include_children THEN Ancestors(o) ELSE {o} : ObjectMatches(x, q)}
    [] q.list = "devices" -> {d \in Range(snapshot.devices) : DeviceMatches(d, q)}
    [] q.list = "tags" -> {t \in Range(snapshot.tags) : TagMatches(t, q)}

(* The pages of a walk join without gap or repetition: what the client has  *)
(* so far is strictly ordered by code and id and is all that the query asks *)
(* for from the walk's first offset on, up to some position.  The walk ends *)
(* exactly when nothing is left after that position, and no page before its *)
(* last is empty, whatever limit was asked for.                             *)
PagesTile ==
  pages > 0 =>
    LET asked == Asked(query)
        start == Least(first, Cardinality(asked))
        position == start + Len(collected)
        Rank(x) == Cardinality({y \in asked : Precedes(y, x)})
    IN /\ \A i, j \in DOMAIN collected : i < j => Precedes(collected[i], collected[j])
       /\ Range(collected) = {ToReadModel(query.list, x) :
                                x \in {y \in asked : Rank(y) \in start..(position - 1)}}
       /\ walk = "done" <=> position = Cardinality(asked)
       /\ pages <= Len(collected) + 1
       /\ walk = "walking" => pages <= Len(collected)

(* The tree and the list are two views of one configuration: in a snapshot  *)
(* that validation lets pass, the tree under any filter has exactly the     *)
(* objects the list has with includeChildren, each at one place, and its    *)
(* count is their number.                                                   *)
TreeMatchesList ==
  service = "serving" /\ walk = "idle" =>
    \A id, parent_id \in Ids(snapshot.objects) \cup {Absent} :
      LET tree == ReadObjectTree(snapshot.objects, id, parent_id)
          q == [query EXCEPT !.list = "objects", !.id = id, !.parent_id = parent_id,
                             !.include_children = TRUE]
          listed == Select(snapshot, q)
      IN /\ {Last(p) : p \in tree.nodes} = Ids(listed)
         /\ tree.count = Len(listed) /\ Cardinality(tree.nodes) = tree.count

(* The lists agree on where things are: with no filter on what is enabled,  *)
(* a device that has left Draft is listed under an object of the list of    *)
(* objects, and what is listed under the device is listed under that object *)
(* as well, except tags of the system itself.                               *)
TagsFollowDevices ==
  service = "serving" /\ walk = "idle" =>
    LET Under(list, object_id, device_id) ==
          Range(Select(snapshot,
                       [query EXCEPT !.list = list, !.id = Absent, !.parent_id = Absent,
                                     !.object_id = object_id, !.device_id = device_id,
                                     !.state = AnyState, !.include_disabled = TRUE]))
    IN \A d \in {x \in Range(snapshot.devices) : x.state # "Draft"} :
         /\ d.object_id \in {o.id : o \in Under("objects", Absent, Absent)}
         /\ d \in Under("devices", d.object_id, Absent)
         /\ {t \in Under("tags", Absent, d.id) : t.type # "SystemTag"}
               \subseteq Under("tags", d.object_id, Absent)
=============================================================================
