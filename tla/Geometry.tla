------------------------------ MODULE Geometry ------------------------------
(* The arithmetic of one image on its way through the detector processes,     *)
(* for every configuration of a set: the UDP receiver puts the packets of a   *)
(* GigaFRoST frame in place (GigafrostFrame), each module's converter copies  *)
(* its frame into the image (Converters), and the stream senders carry the    *)
(* image away in parts (ImageParts). The processes compute their sizes and    *)
(* offsets separately from the same DetectorConfig; nothing at run time       *)
(* compares them.                                                             *)
EXTENDS ImageParts, GigafrostFrame, Converters, Sequences, FiniteSets, TLC
LOCAL INSTANCE SequencesExt

CONSTANT Configs

ASSUME GeometryAssumption ==
    \A c \in Configs :
        /\ c.max_number_of_forwarders_spawned \in Nat \ {0}
        /\ c.detector_type = "gigafrost" => n_rows_per_packet(c) \in Nat \ {0}
        /\ converted_image_n_bytes(c) <= max_image_bytes(c.detector_type)
        /\ max_single_sender_size(c) > 0

VARIABLES config,    \* the DetectorConfig every process was started with
          arrivals,  \* packets stored in frame_buffer, in order of arrival
          spoilt,    \* packets with bytes that another one's padding replaced
          converted, \* modules whose converter has written its part of the image
          image,     \* cell |-> <<module, cell of its frame>>, << >> until written
          outside,   \* some converter wrote past the end of its slot
          carried    \* parts of the image the stream senders have sent
vars == <<config, arrivals, spoilt, converted, image, outside, carried>>

-----------------------------------------------------------------------------
(* std_udp_recv_gf, one packet of one frame. Any packet may come next; the    *)
(* last one ends the frame, complete or not.                                  *)

LastPacket == n_packets_per_frame(config) - 1

Packets == IF config.detector_type = "gigafrost" THEN 0..LastPacket ELSE {}

PacketRows(i) == IF i = LastPacket THEN last_packet_n_rows(config)
                                   ELSE n_rows_per_packet(config)

PacketBytes(i) == IF i = LastPacket THEN bytes_of_last_packet(config)
                                    ELSE n_data_bytes_per_packet(config)

(* The bytes of frame_buffer that memcpy overwrites, and the ones among them  *)
(* that hold pixels.                                                          *)
Stored(i) == frame_buffer_offset(config, i) ..
                 (frame_buffer_offset(config, i) + PacketBytes(i) - 1)

Pixels(i) == frame_buffer_offset(config, i) ..
                 (frame_buffer_offset(config, i) + RowBytes(config, PacketRows(i)) - 1)

process_packet(i) ==
    /\ converted = {}                         \* a bound: one frame, then the image
    /\ LastPacket \notin Range(arrivals) /\ i \notin Range(arrivals)
    /\ arrivals' = Append(arrivals, i)
    /\ spoilt' = spoilt \cup {p \in Range(arrivals) : Stored(i) \cap Pixels(p) # {}}
    /\ UNCHANGED <<config, converted, image, outside, carried>>

-----------------------------------------------------------------------------
(* The converters, one process per module.                                    *)

Modules == IF config.detector_type = "gigafrost" THEN 0..7 ELSE DOMAIN config.modules

Accepts(c) ==
    CASE c.detector_type = "gigafrost" -> TRUE
      [] c.detector_type = "eiger" -> \A m \in DOMAIN c.modules : eg_accepts(c, m)
      [] OTHER -> \A m \in DOMAIN c.modules : jf_accepts(c, m)

CellBytes(c) == CASE c.detector_type = "eiger" -> 1
                  [] c.detector_type = "gigafrost" -> 2
                  [] OTHER -> IF c.with_gains THEN 4 ELSE 2

Cells(c) == 0..(converted_image_n_bytes(c) \div CellBytes(c) - 1)

Copies(m) == CASE config.detector_type = "gigafrost" -> gf_convert(config, m)
               [] config.detector_type = "eiger" -> eg_convert(config, m)
               [] OTHER -> jf_convert(config, m)

convert(m) ==
    /\ arrivals = << >>                       \* a bound: see process_packet
    /\ m \notin converted
    /\ \E copies \in {Copies(m)} :
           \E targets \in {{c[1] : c \in copies}} :
               /\ image' = [p \in targets \cap DOMAIN image |->
                               <<m, (CHOOSE c \in copies : c[1] = p)[2]>>] @@ image
               /\ outside' = (outside \/ ~(targets \subseteq DOMAIN image))
    /\ converted' = converted \cup {m}
    /\ UNCHANGED <<config, arrivals, spoilt, carried>>

-----------------------------------------------------------------------------
(* A stream sender and its receiver copy the same part of the image; both     *)
(* end at once when their part would start behind the image.                  *)

Part(p) == calculate_image_offset(config, p) ..
               (calculate_image_offset(config, p) + calculate_image_bytes_sent(config, p) - 1)

Starts(p) == calculate_image_offset(config, p) < converted_image_n_bytes(config)

send_part(p) ==
    /\ converted = Modules
    /\ Starts(p)
    /\ p \notin carried
    /\ carried' = carried \cup {p}
    /\ UNCHANGED <<config, arrivals, spoilt, converted, image, outside>>

Init ==
    /\ config \in {c \in Configs : Accepts(c)}
    /\ arrivals = << >>
    /\ spoilt = {}
    /\ converted = {}
    /\ image = [p \in Cells(config) |-> << >>]
    /\ outside = FALSE
    /\ carried = {}

Next ==
    \/ \E i \in Packets : process_packet(i)
    \/ \E m \in Modules : convert(m)
    \/ \E p \in 0..(number_of_senders(config) - 1) : send_part(p)

Spec == Init /\ [][Next]_vars

-----------------------------------------------------------------------------
(* Every variable stays within its type: the packets and parts that exist,    *)
(* and cells of the image filled by modules that have converted.              *)
TypeOK ==
    /\ arrivals \in Seq(Packets)
    /\ spoilt \subseteq Range(arrivals)
    /\ converted \subseteq Modules
    /\ DOMAIN image = Cells(config)
    /\ \A p \in DOMAIN image : image[p] = << >> \/ image[p][1] \in converted
    /\ outside \in BOOLEAN
    /\ carried \subseteq 0..(number_of_senders(config) - 1)

(* Storing a packet (udp-recv gigafrost/main.cpp process_packet) leaves the   *)
(* pixels of the packets stored before it alone, whatever the order they      *)
(* arrive in; once all have been stored, the frame buffer holds every pixel   *)
(* of the module, no byte is stored behind it, and the receiver's slot has    *)
(* the size the converter assumes (bytes_of_frame, calculate_data_sizes).     *)
(* Padding is the exception. Its 36 bytes replace the start of the packet's   *)
(* successor if that came first, and n_missing_packets does not tell; at the  *)
(* end of the frame the receiver counts them, the others do not.              *)
FrameIsTiled ==
    /\ \A p \in spoilt :
           /\ Padded(config, n_rows_per_packet(config))
           /\ \E i, j \in DOMAIN arrivals : i < j /\ arrivals[i] = p /\ arrivals[j] = p - 1
    /\ arrivals # << >> /\ Range(arrivals) = Packets =>
           UNION {Pixels(i) : i \in Range(arrivals)} = 0..(module_n_data_bytes(config) - 1)
    /\ arrivals # << >> =>
           IF Padded(config, last_packet_n_rows(config))
           THEN bytes_of_frame(config) = calculate_data_sizes(config) + 36
           ELSE /\ bytes_of_frame(config) = calculate_data_sizes(config)
                /\ \A i \in Range(arrivals) :
                       \A b \in Stored(i) : b < module_n_data_bytes(config)

(* The reference for a GigaFRoST pixel: the half of the image gives the       *)
(* quadrant, the distance from the middle line the module and its row.        *)
GfSource(x, y) ==
    LET middle == config.image_pixel_height \div 2
        north  == y < middle
        depth  == IF north THEN middle - 1 - y ELSE y - middle
        w      == config.image_pixel_width \div 2
    IN  <<(IF north THEN 4 ELSE 0) + (IF x < w THEN 0 ELSE 2) + (depth % 2),
          (depth \div 2) * w + (x % w)>>

(* Sizes "divisible by 4", which the comment in gf converter.cpp asks for.    *)
Divisible == config.image_pixel_height % 4 = 0 /\ config.image_pixel_width % 4 = 0

(* The eight GigaFRoST converters write every pixel of the image, each one    *)
(* once and with the pixel of the module, row and column it belongs to, in    *)
(* whatever order they run; before the last has run, no one's pixels have     *)
(* been replaced.                                                             *)
GigafrostImageIsWhole ==
    config.detector_type = "gigafrost" /\ Divisible =>
        /\ ~outside
        /\ \A y \in 0..(config.image_pixel_height - 1), x \in 0..(config.image_pixel_width - 1) :
               LET source == GfSource(x, y)
               IN  image[y * config.image_pixel_width + x] =
                       IF source[1] \in converted THEN source ELSE << >>

-----------------------------------------------------------------------------
(* The rectangle the configuration gives a module.                            *)
Rectangle(m) ==
    LET a == config.modules[m].start
        b == config.modules[m].end
    IN  [left |-> a.x, right |-> b.x,
         top |-> IF a.y < b.y THEN a.y ELSE b.y, bottom |-> IF a.y < b.y THEN b.y ELSE a.y]

(* Layouts the converters are meant for, among the ones they accept: the      *)
(* module runs to the right, a Jungfrau also downwards, it ends before the    *)
(* borders, and gains are applied exactly to images of floats.                *)
Proper(m) ==
    LET r == Rectangle(m)
    IN  /\ 0 <= r.left /\ r.left < r.right /\ r.right < config.image_pixel_width
        /\ 0 <= r.top /\ r.bottom < config.image_pixel_height
        /\ config.detector_type # "eiger" =>
               /\ config.modules[m].start.y < config.modules[m].end.y
               /\ config.with_gains = (config.detector_type = "jungfrau-converted")

Apart(m, n) ==
    LET r == Rectangle(m)
        s == Rectangle(n)
    IN  r.right < s.left \/ s.right < r.left \/ r.bottom < s.top \/ s.bottom < r.top

CellX(p) == ((p * CellBytes(config) * 8) \div config.bit_depth) % config.image_pixel_width
CellY(p) == ((p * CellBytes(config) * 8) \div config.bit_depth) \div config.image_pixel_width

InRectangle(m, p) ==
    LET r == Rectangle(m)
    IN  CellX(p) \in r.left..r.right /\ CellY(p) \in r.top..r.bottom

(* The two columns between the chips of an Eiger module.                      *)
InGap(m, p) ==
    /\ config.detector_type = "eiger"
    /\ CellX(p) - Rectangle(m).left - (MODULE_X_SIZE("eiger") \div 2) \in 0..1

(* When the modules of an Eiger or Jungfrau have proper rectangles that do    *)
(* not overlap, every converter fills its own rectangle except for the chip   *)
(* gap, and nothing else: at any time exactly the cells of the modules that   *)
(* have converted are written, whatever the bit depth and whichever way up    *)
(* the modules are mounted.                                                   *)
OwnRectangle ==
    /\ config.detector_type # "gigafrost"
    /\ \A m \in Modules : Proper(m) /\ \A n \in Modules \ {m} : Apart(m, n)
    => /\ ~outside
       /\ \A p \in DOMAIN image :
              LET owners == {m \in converted : InRectangle(m, p) /\ ~InGap(m, p)}
              IN  IF owners = {} THEN image[p] = << >>
                  ELSE image[p] # << >> /\ image[p][1] \in owners

(* The parts never overlap and end within the image, and together they carry  *)
(* all of it, as many parts as there are forwarders at most, whenever the     *)
(* size they are cut from is a multiple of max_number_of_forwarders_spawned;  *)
(* then each part the stream synchronizer waits for also has a sender.        *)
(* Otherwise each boundary between two parts loses one byte at most, and one  *)
(* part more than there are forwarders may be waited for.                     *)
PartsTile ==
    LET n_bytes == converted_image_n_bytes(config)
        even    == divided_bytes(config) % config.max_number_of_forwarders_spawned = 0
        sent    == UNION {Part(p) : p \in carried}
        Whole   == carried = 0..(number_of_senders(config) - 1)
    IN  /\ \A p, q \in carried : p # q => Part(p) \cap Part(q) = {}
        /\ even \/ config.sender_sends_full_images =>
               /\ sent \subseteq 0..(n_bytes - 1)
               /\ number_of_senders(config) <= config.max_number_of_forwarders_spawned
               /\ \A p \in 0..(number_of_senders(config) - 1) : Starts(p)
               /\ Whole => Cardinality(sent) = n_bytes
        /\ Whole => Cardinality(sent) >= n_bytes - Cardinality(carried)
=============================================================================
