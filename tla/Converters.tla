----------------------------- MODULE Converters -----------------------------
(* Where the three converters put what a module sent: for each detector, the  *)
(* pairs <<cell of the image, cell of the module's frame>> that one call of   *)
(* Converter::convert copies. A cell is a pixel for GigaFRoST and Jungfrau    *)
(* (uint16_t, or float once gains are applied) and a byte for Eiger.          *)
EXTENDS Integers

CONSTANTS MODULE_X_SIZE(_), MODULE_Y_SIZE(_)   \* of a module of the type, in pixels

LOCAL Rows(n) == 0..(n - 1)

LOCAL Distance(a, b) == IF a < b THEN b - a ELSE a - b

-----------------------------------------------------------------------------
(* GigaFRoST: a quadrant is two modules that send its rows in turn, from the  *)
(* middle of the image outwards.                                              *)

quadrant(module_id) == <<"SW", "SE", "NW", "NE">>[((module_id % 8) \div 2) + 1]

(* Slip: the upper half starts on the first row of the lower one.             *)
gf_start_index_at_middle(config, module_id) ==
    LET w == config.image_pixel_width
    IN  (config.image_pixel_height \div 2) * w
        + (IF quadrant(module_id) \in {"SE", "NE"} THEN w \div 2 ELSE 0)
        + (IF module_id % 2 = 0 THEN 0 ELSE IF quadrant(module_id) \in {"SW", "SE"} THEN w ELSE -w)

gf_start_index(config, module_id) ==
    LET h   == config.image_pixel_height
        w   == config.image_pixel_width
        odd == IF module_id % 2 = 1 THEN w ELSE 0
    IN  CASE quadrant(module_id) = "SW" -> (h \div 2) * w + odd
          [] quadrant(module_id) = "SE" -> (h \div 2) * w + (w \div 2) + odd
          [] quadrant(module_id) = "NW" -> ((h - 1) \div 2) * w - odd
          [] quadrant(module_id) = "NE" -> ((h - 1) \div 2) * w + (w \div 2) - odd

gf_row_jump(config, module_id) ==
    2 * config.image_pixel_width * (IF quadrant(module_id) \in {"NW", "NE"} THEN -1 ELSE 1)

(* conversion_handle i holds two pixels; a row takes as many handles as cover *)
(* half the width of the image.                                               *)
gf_convert(config, module_id) ==
    LET handles   == ((config.image_pixel_width \div 2) + 1) \div 2
        Start(r)  == gf_row_jump(config, module_id) * r + gf_start_index(config, module_id)
    IN  {<<Start(r) + 2 * j + p, 2 * (r * handles + j) + p>> :
            r \in Rows(config.image_pixel_height \div 4), j \in Rows(handles), p \in 0..1}

-----------------------------------------------------------------------------
(* The layout of the other two: config.modules gives the first and the last   *)
(* pixel of every module.                                                     *)

test_if_module_is_inside_image(config, module_id) ==
    \A corner \in {config.modules[module_id].start, config.modules[module_id].end} :
        corner.x <= config.image_pixel_width /\ corner.y <= config.image_pixel_height

SizeIs(config, module_id, dx, dy) ==
    LET m == config.modules[module_id]
    IN  Distance(m.start.x, m.end.x) = dx /\ Distance(m.start.y, m.end.y) = dy

-----------------------------------------------------------------------------
(* Eiger: a module is two chips with a gap of two pixels between them, and    *)
(* may be mounted upside down.                                                *)

test_if_module_size_fits_eiger(config, module_id) ==
    SizeIs(config, module_id, MODULE_X_SIZE("eiger") + 1, MODULE_Y_SIZE("eiger") - 1)

eg_row_jump(config) == (config.image_pixel_width * config.bit_depth) \div 8

(* Slip: the rows always run downwards.                                       *)
eg_row_jump_downwards(config, module_id) == 1

eg_row_jump_direction(config, module_id) ==
    IF config.modules[module_id].end.y < config.modules[module_id].start.y THEN -1 ELSE 1

eg_start_index(config, module_id) ==
    config.modules[module_id].start.y * eg_row_jump(config)
        + (config.modules[module_id].start.x * config.bit_depth) \div 8

eg_convert(config, module_id) ==
    LET chip     == (MODULE_X_SIZE("eiger") * config.bit_depth) \div 16
        gap      == (2 * config.bit_depth) \div 8
        jump     == eg_row_jump(config) * eg_row_jump_direction(config, module_id)
        Start(r) == eg_start_index(config, module_id) + r * jump
    IN  {<<Start(r) + c * (chip + gap) + b, r * chip * 2 + c * chip + b>> :
            r \in Rows(MODULE_Y_SIZE("eiger")), c \in 0..1, b \in Rows(chip)}

eg_accepts(config, module_id) ==
    /\ config.bit_depth >= 8
    /\ test_if_module_is_inside_image(config, module_id)
    /\ test_if_module_size_fits_eiger(config, module_id)

-----------------------------------------------------------------------------
(* Jungfrau: one rectangle, copied row by row, or pixel by pixel when gains   *)
(* and pedestals are applied.                                                 *)

test_if_module_size_fits_jungfrau(config, module_id) ==
    SizeIs(config, module_id, MODULE_X_SIZE("jungfrau") - 1, MODULE_Y_SIZE("jungfrau") - 1)

jf_start_index(config, module_id) ==
    config.image_pixel_width * config.modules[module_id].start.y
        + config.modules[module_id].start.x

jf_convert(config, module_id) ==
    {<<jf_start_index(config, module_id) + r * config.image_pixel_width + c,
       r * MODULE_X_SIZE("jungfrau") + c>> :
        r \in Rows(MODULE_Y_SIZE("jungfrau")), c \in Rows(MODULE_X_SIZE("jungfrau"))}

(* create_converter: with_gains says that a file of gains was named.          *)
jf_accepts(config, module_id) ==
    /\ config.detector_type = "jungfrau-converted" => config.with_gains
    /\ test_if_module_is_inside_image(config, module_id)
    /\ test_if_module_size_fits_jungfrau(config, module_id)
=============================================================================
