----------------------------- MODULE WirePackets -----------------------------
(***************************************************************************)
(* The packets of the servers and clients on the wire: what Serialize      *)
(* writes, and what PacketRegistry::CreateFromBytes makes of the bytes at  *)
(* the receiver.  A packet's data is laid out as a sequence of fields      *)
(*                                                                         *)
(*    int w    an integer, float or enum of w bytes                        *)
(*    uuid     the bytes of a UUID                                         *)
(*    blob     a length and bytes                                          *)
(*    list l   a 64-bit count and elements with the layout l               *)
(*                                                                         *)
(* and its value is the sequence of the fields' values.  The writer lays   *)
(* out the alternative the packet's variant holds, the reader the one that *)
(* the stage or flag it has read stands for.                               *)
(***************************************************************************)
EXTENDS ByteStream

CONSTANTS
    Seeds,      \* seeds of the values of a packet's fields
    MaxList,    \* bound on the elements of a list
    BlobSizes,  \* sizes of blobs
    BitFields,  \* sequences of bit fields a command is given
    Ints        \* integers a command is given

\* Lists and blobs have the lengths that their counts can hold.
ASSUME WireAssumption ==
    /\ Seeds \subseteq Nat
    /\ MaxList \in Nat /\ MaxList < U32
    /\ \A size \in BlobSizes : size \in Nat /\ size < U32

VARIABLES
    outgoing,   \* the packet that was sent, or NoPacket
    args,       \* what the arguments of a command were written from, or NoArgs
    wire,       \* the bytes it was serialised to, then those of them that were received
    incoming    \* what the receiver made of the first bytes: none yet, throw, abort or packet

wireVars == <<outgoing, args, wire, incoming>>

I(w) == [kind |-> "int", w |-> w, of |-> <<>>]
U == [kind |-> "uuid", w |-> UuidBytes, of |-> <<>>]
B == [kind |-> "blob", w |-> 0, of |-> <<>>]
L(layout) == [kind |-> "list", w |-> 8, of |-> layout]

Vec3 == <<I(4), I(4), I(4)>>
Aabb3 == Vec3 \o Vec3
TransformLayout == <<I(2)>> \o Vec3 \o Aabb3
EntityMinimal == <<U, I(1), U, I(8), I(8)>> \o TransformLayout
EntityLayout == EntityMinimal \o <<B>>
Identity == <<I(4), U>>

\* The layouts a variant chooses from, by the index of the alternative.
ClientTransferStages ==
    << <<L(EntityLayout \o <<I(8)>>)>>,    \* eShardPrepare
       <<L(<<U, I(8)>>)>>,                 \* eShardReady
       <<L(<<U>>)>> \o Identity,           \* eProxyRequestSwitch
       <<L(<<U>>)>>,                       \* eProxyFreeze
       <<L(<<U, I(8)>>)>>,                 \* eShardDrained
       <<L(<<U, I(8), I(8)>>)>> >>         \* eProxyTransferActivate
EntityTransferStages ==
    << <<L(<<U>>)>>,                       \* ePrepare
       <<>>,                               \* eReady
       <<L(EntityLayout \o <<I(8)>>)>>,    \* eCommit
       <<>> >>                             \* eComplete
EntityLists == << <<L(EntityLayout)>>, <<L(EntityMinimal)>> >>

\* The packets: the fields before the variant and its alternatives.
PacketTypes ==
    [ClientTransferPacket |-> [head |-> <<U, I(4)>>, data |-> ClientTransferStages],
     EntityTransferPacket |-> [head |-> <<U, I(4)>>, data |-> EntityTransferStages],
     LocalEntityListRequestPacket |-> [head |-> <<I(4), I(1)>>, data |-> EntityLists],
     CommandPacket |-> [head |-> <<I(4)>>, data |-> << <<B>> >>],
     ClientIDAssignPacket |-> [head |-> Identity, data |-> << <<>> >>],
     GenericEntityPacket |-> [head |-> Identity \o EntityLayout \o <<I(1), I(8), I(8)>>,
                              data |-> << <<>> >>]]
TypeIDs ==
    [ClientTransferPacket |-> 1, EntityTransferPacket |-> 2, LocalEntityListRequestPacket |-> 3,
     CommandPacket |-> 4, ClientIDAssignPacket |-> 5, GenericEntityPacket |-> 6]
\* The packets with an entry in PacketRegistry.  CommandPacket has none.
Registered == DOMAIN PacketTypes \ {"CommandPacket"}

\* The alternative that DeserializeData constructs for the head it has read; 0 throws.
AlternativeOf_Swapped(type, head) ==
    CASE type = "LocalEntityListRequestPacket" -> IF head[2] # 0 THEN 2 ELSE 1
      [] type \in {"ClientTransferPacket", "EntityTransferPacket"} ->
            IF head[2] < Len(PacketTypes[type].data) THEN head[2] + 1 ELSE 0
      [] OTHER -> 1
AlternativeOf(type, head) ==
    CASE type = "LocalEntityListRequestPacket" -> IF head[2] # 0 THEN 1 ELSE 2
      [] type \in {"ClientTransferPacket", "EntityTransferPacket"} ->
            IF head[2] < Len(PacketTypes[type].data) THEN head[2] + 1 ELSE 0
      [] OTHER -> 1

\* Validate.
Nil == [k \in 1..UuidBytes |-> 0]
Validate(p) ==
    CASE p.type = "LocalEntityListRequestPacket" ->
            \/ p.head[1] = 0
            \/ p.head[1] = 1 /\ p.alternative = IF p.head[2] # 0 THEN 1 ELSE 2
      [] p.type = "CommandPacket" -> p.head[1] # 0
      [] p.type = "ClientIDAssignPacket" -> p.head[2] # Nil
      [] p.type = "GenericEntityPacket" -> p.head[1] # 0
      [] OTHER -> TRUE

-----------------------------------------------------------------------------
(* Serialize. *)

WriteField(f, v) ==
    CASE f.kind = "int" -> PushBe(f.w, v)
      [] f.kind = "uuid" -> v
      [] f.kind = "blob" -> Blob(v)
WriteFields(layout, values) == FlattenSeq([k \in 1..Len(layout) |-> WriteField(layout[k], values[k])])
WriteListOrField(f, v) ==
    IF f.kind = "list"
    THEN PushBe(f.w, Len(v)) \o FlattenSeq([k \in 1..Len(v) |-> WriteFields(f.of, v[k])])
    ELSE WriteField(f, v)
WriteData(layout, values) ==
    FlattenSeq([k \in 1..Len(layout) |-> WriteListOrField(layout[k], values[k])])

Serialize(p) ==
    PushBe(4, TypeIDs[p.type]) \o WriteFields(PacketTypes[p.type].head, p.head)
        \o WriteData(PacketTypes[p.type].data[p.alternative], p.data)

-----------------------------------------------------------------------------
(* CreateFromBytes and Deserialize. *)

ReadField(r, f) ==
    CASE f.kind = "int" -> ReadInt(r, f.w)
      [] f.kind = "uuid" -> ReadRaw(r, f.w)
      [] f.kind = "blob" -> ReadBlob(r)

\* Reading one thing after the other: the reader and the values so far.
Start(r) == [r |-> r, values |-> <<>>]
Then(s, r) == [r |-> r, values |-> Append(s.values, r.v)]
ThenField(s, f) == Then(s, ReadField(s.r, f))
ReadFields(r, layout) ==
    LET s[k \in 0..Len(layout)] == IF k = 0 THEN Start(r) ELSE ThenField(s[k - 1], layout[k])
    IN  s[Len(layout)]
\* A list is resized to the count that was read; it is cut here to what a bounded run reads.
ThenElement(s, layout) ==
    LET x == ReadFields(s.r, layout) IN [r |-> x.r, values |-> Append(s.values, x.values)]
ReadList(r, layout) ==
    LET count == ReadInt(r, 8)
        n == IF count.ok = "yes" THEN count.v ELSE 0
        s[k \in 0..n] == IF k = 0 THEN Start(count) ELSE ThenElement(s[k - 1], layout)
    IN  s[n]
ReadListOrField(r, f) ==
    IF f.kind = "list"
    THEN LET s == ReadList(r, f.of) IN [s.r EXCEPT !.v = s.values]
    ELSE ReadField(r, f)
ThenListOrField(s, f) == Then(s, ReadListOrField(s.r, f))
ReadData(r, layout) ==
    LET s[k \in 0..Len(layout)] == IF k = 0 THEN Start(r) ELSE ThenListOrField(s[k - 1], layout[k])
    IN  s[Len(layout)]

NoPacket == [type |-> "none", head |-> <<>>, alternative |-> 0, data |-> <<>>]
Failed(outcome) == [outcome |-> outcome, packet |-> NoPacket]

DeserializePacket(r, type) ==
    LET head == ReadFields(r, PacketTypes[type].head)
        a == AlternativeOf(type, head.values)
        data == ReadData(head.r, PacketTypes[type].data[a])
        p == [type |-> type, head |-> head.values, alternative |-> a, data |-> data.values]
    IN  IF head.r.ok = "no" THEN Failed("throw")
        ELSE IF a = 0 THEN Failed("throw")
        ELSE IF data.r.ok = "no" THEN Failed("throw")
        ELSE IF ~Validate(p) THEN Failed("abort")
        ELSE [outcome |-> "packet", packet |-> p]

\* The registry has the types with the ID that was read.  A CommandPacket is not received
\* through it: its bytes are given to a packet of this type.
TypesFor(p, id) == IF p.type \in Registered THEN {t \in Registered : TypeIDs[t] = id.v} ELSE {p.type}

Received(p, bytes) ==
    LET id == ReadInt(Reader(bytes), 4)
        types == TypesFor(p, id)
    IN  IF id.ok = "no" THEN Failed("throw")
        ELSE IF types = {} THEN Failed("abort")
        ELSE DeserializePacket(id, CHOOSE t \in types : TRUE)

-----------------------------------------------------------------------------
(* A connection: packets that validate are serialised (SendMessage), and the receiver      *)
(* reads the bytes, all of them or the first n.                                            *)

\* Values that differ from field to field, so that no two fields can be taken for each other.
FieldValue(f, seed) ==
    CASE f.kind = "int" -> seed % Power(Base, IF f.w > 4 THEN 4 ELSE f.w)
      [] f.kind = "uuid" -> [k \in 1..UuidBytes |-> (seed + k) % Base]
      [] f.kind = "blob" -> <<>>
FieldValues(layout, seed, size) ==
    [k \in 1..Len(layout) |-> IF layout[k].kind = "blob" THEN [j \in 1..size |-> (seed + j) % Base]
                              ELSE FieldValue(layout[k], seed + 3 * k)]
DataValues(layout, seed, count, size) ==
    [k \in 1..Len(layout) |->
        IF layout[k].kind = "list"
        THEN [j \in 1..count |-> FieldValues(layout[k].of, seed + 7 * j, size)]
        ELSE FieldValues(layout, seed, size)[k]]

\* The packets the program builds: the stage or flag stands for the alternative, but a query
\* for entities holds the default alternative, which is empty.
HeadsOf(type, a, seed, size) ==
    CASE type \in {"ClientTransferPacket", "EntityTransferPacket"} -> {<<FieldValue(U, seed), a - 1>>}
      [] type = "LocalEntityListRequestPacket" -> {<<0, 0>>, <<0, 1>>, <<1, 2 - a>>}
      [] type = "ClientIDAssignPacket" -> {<<4, FieldValue(U, seed)>>}
      [] type = "GenericEntityPacket" -> {FieldValues(PacketTypes[type].head, seed, size)}
IsQuery(type, head) == type = "LocalEntityListRequestPacket" /\ head[1] = 0
OutgoingPackets(type, a, seed, count, size) ==
    {[type |-> type, head |-> h, alternative |-> IF IsQuery(type, h) THEN 1 ELSE a,
      data |-> DataValues(PacketTypes[type].data[a], seed, IF IsQuery(type, h) THEN 0 ELSE count, size)] :
        h \in HeadsOf(type, a, seed, size)}

\* WriteArgs and ReadArgs of CommandPacket: the sender's lambda writes the arguments, the
\* receiver's reads the same types.
NoArgs == [bits |-> <<>>, int |-> 0]
WriteArgs(x) ==
    WriteBits(x.bits) \o VarI32(x.int) \o PushBe(4, Unsigned(x.int))
        \o Quat([x |-> 1, y |-> 2, z |-> 3, w |-> Unsigned(x.int)]) \o Tlv(x.int % 7, WriteBits(x.bits))
\* The lambda writes values of at most as many bits as it says, of which bits takes 32 at a
\* time, and the range of an int32_t; no more bytes than a blob can hold.
ASSUME CommandAssumption ==
    /\ \A bits \in BitFields :
           /\ bits \in Seq([value : Nat, count : 0..(4 * ByteBits)])
           /\ \A k \in 1..Len(bits) : bits[k].value < Power(2, bits[k].count)
           /\ Len(WriteBits(bits)) < U32
    /\ \A int \in Ints : int \in Int /\ -U32 <= 2 * int /\ 2 * int < U32
    /\ \A bits \in BitFields, int \in Ints : Len(WriteArgs([bits |-> bits, int |-> int])) < U32

ReadArgs(bytes, shape) ==
    LET counts == [k \in 1..Len(shape.bits) |-> shape.bits[k].count]
        bits == ReadAllBits(Reader(bytes), counts)
        var == ReadVarI32([bits.r EXCEPT !.bitBuffer = 0, !.bitPos = 0])
        int == ReadInt(var, 4)
        quat == ReadQuat(int)
        tlv == ReadTlv(quat)
    IN  IF tlv.ok = "no" THEN [ok |-> "no"]
        ELSE [ok |-> "yes", bits |-> bits.values, var |-> var.v, int |-> Signed(int.v, 4),
              quat |-> quat.v, tag |-> tlv.v.tag, left |-> Remaining(tlv),
              again |-> ReadAllBits(Reader(tlv.v.value), counts).values]
ArgsOf(x) ==
    LET values == [k \in 1..Len(x.bits) |-> x.bits[k].value] IN
    [ok |-> "yes", bits |-> values, var |-> x.int, int |-> x.int,
     quat |-> [x |-> 1, y |-> 2, z |-> 3, w |-> Unsigned(x.int)], tag |-> x.int % 7, left |-> 0,
     again |-> values]

WireInit == args = NoArgs /\ outgoing = NoPacket /\ wire = <<>> /\ incoming = Failed("none")

SendPacket(p) ==
    /\ Validate(p)
    /\ UNCHANGED args
    /\ outgoing = NoPacket
    /\ outgoing' = p
    /\ wire' = Serialize(p)
    /\ UNCHANGED incoming

SendCommand(x) ==
    LET p == [type |-> "CommandPacket", head |-> <<1>>, alternative |-> 1, data |-> <<WriteArgs(x)>>] IN
    /\ outgoing = NoPacket
    /\ args' = x
    /\ outgoing' = p
    /\ wire' = Serialize(p)
    /\ UNCHANGED incoming

ReceiveBytes(n) ==
    /\ outgoing # NoPacket /\ incoming.outcome = "none"
    /\ wire' = SubSeq(wire, 1, n)
    /\ incoming' = Received(outgoing, wire')
    /\ UNCHANGED <<outgoing, args>>

WireNext ==
    \/ \E type \in Registered, seed \in Seeds, count \in 0..MaxList, size \in BlobSizes :
          \E a \in 1..Len(PacketTypes[type].data) :
              \E p \in OutgoingPackets(type, a, seed, count, size) : SendPacket(p)
    \/ \E bits \in BitFields, int \in Ints : SendCommand([bits |-> bits, int |-> int])
    \/ \E n \in 0..Len(wire) : ReceiveBytes(n)

WireSpec == WireInit /\ [][WireNext]_wireVars

-----------------------------------------------------------------------------
Same(p, q) == [p EXCEPT !.alternative = 0] = [q EXCEPT !.alternative = 0]

\* A packet that validates at the sender is the packet that the receiver constructs; it
\* validates there too, whatever alternative its variant held (Interlink's SendMessage,
\* PacketRegistry::CreateFromBytes).  The lambda at the receiver reads the arguments of a
\* command as the sender's wrote them, at the ends of the integers' range and wherever bit
\* fields cross bytes (CommandPacket's WriteArgs and ReadArgs, ByteWriter::bits).
PacketReadBack ==
    incoming.outcome # "none" /\ wire = Serialize(outgoing) =>
        /\ incoming.outcome = "packet" /\ Same(incoming.packet, outgoing)
        /\ args # NoArgs => ReadArgs(incoming.packet.data[1], args) = ArgsOf(args)

\* No packet is the beginning of another one: with bytes missing a read throws, before the
\* receiver gets a packet and before the assertion on an invalid one is reached.
TruncatedThrows ==
    incoming.outcome # "none" /\ wire # Serialize(outgoing) => incoming.outcome = "throw"
=============================================================================
