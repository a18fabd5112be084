---------------------------- MODULE MCGeometry ----------------------------
(* Small images of every detector type. The packets, the modules and the      *)
(* largest images are scaled down with them; 36-byte blocks, 12-pixel blocks  *)
(* and 48-pixel cache lines keep the size they have in the code.              *)
EXTENDS Geometry

MCMaxImageBytes(type) == CASE type = "gigafrost" -> 48 * 20 * 2
                           [] type = "eiger" -> 8 * 3 * 4
                           [] type = "jungfrau-raw" -> 5 * 4 * 2
                           [] type = "jungfrau-converted" -> 5 * 4 * 4

MCModuleX(type) == 2
MCModuleY(type) == 2

DivisionModes == {[full |-> TRUE, all |-> FALSE], [full |-> FALSE, all |-> TRUE],
                  [full |-> FALSE, all |-> FALSE]}

Configuration(type, w, h, depth, n, mode, layout, gains) ==
    [detector_type |-> type, image_pixel_width |-> w, image_pixel_height |-> h,
     bit_depth |-> depth, max_number_of_forwarders_spawned |-> n,
     sender_sends_full_images |-> mode.full, use_all_forwarders |-> mode.all,
     modules |-> layout, with_gains |-> gains]

FullImages == [full |-> TRUE, all |-> FALSE]

(* Widths and heights: divisible by 4 with and without padded packets, odd    *)
(* numbers of rows per module, and sizes that are not divisible by 4. The     *)
(* parts only depend on the number of bytes: two small sizes and the largest, *)
(* which 7 does not divide, do for them.                                      *)
GfSizes == {<<24, 8>>, <<24, 20>>, <<48, 20>>, <<72, 12>>, <<24, 6>>, <<26, 8>>}

GigafrostConfigs ==
    {Configuration("gigafrost", s[1], s[2], 16, 8, FullImages, << >>, FALSE) : s \in GfSizes}
    \cup {Configuration("gigafrost", 24, h, 16, n, mode, << >>, FALSE) :
             h \in {4, 8}, n \in {1, 3, 7}, mode \in DivisionModes}
    \cup {Configuration("gigafrost", 48, 20, 16, 7, mode, << >>, FALSE) : mode \in DivisionModes}

Placements(w, h, dx, dy) ==
    {p \in {[start |-> [x |-> a, y |-> b], end |-> [x |-> a + sx * dx, y |-> b + sy * dy]] :
               a \in 0..w, b \in 0..h, sx \in {-1, 1}, sy \in {-1, 1}} :
        p.end.x \in 0..w /\ p.end.y \in 0..h}

Layouts(w, h, dx, dy) == [0..1 -> Placements(w, h, dx, dy)]

EigerConfigs ==
    {Configuration("eiger", 8, 3, depth, 2, FullImages, layout, FALSE) :
        depth \in {8, 16}, layout \in Layouts(8, 3, 3, 1)}

JungfrauConfigs ==
    {Configuration(type, 5, 3, IF type = "jungfrau-raw" THEN 16 ELSE 32, 3, FullImages, layout, gains) :
        type \in {"jungfrau-raw", "jungfrau-converted"}, layout \in Layouts(5, 3, 1, 1),
        gains \in BOOLEAN}

MCConfigs == GigafrostConfigs \cup EigerConfigs \cup JungfrauConfigs
=============================================================================
