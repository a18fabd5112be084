--------------------------- MODULE GigafrostFrame ---------------------------
(* The sizes of a GigaFRoST module's frame and of its UDP packets             *)
(* (detectors/gigafrost.hpp), as the UDP receiver and the converter derive    *)
(* them, each on its own, from the size of the image. Pixels have 12 bits; a  *)
(* packet with an odd number of rows ends in 24 pixels of padding unless the  *)
(* module's width fills its cache lines.                                      *)
EXTENDS Integers

CONSTANT PACKET_N_DATA_BYTES_MAX

LOCAL Least(a, b) == IF a < b THEN a ELSE b

module_n_x_pixels(config) == config.image_pixel_width \div 2

module_n_y_pixels(config) == (config.image_pixel_height \div 2) \div 2

module_n_data_bytes(config) ==
    (module_n_x_pixels(config) * module_n_y_pixels(config) * 3) \div 2

(* The blocks of 12 pixels are counted in whole rows first and in cache lines *)
(* of 48 pixels afterwards; the divisions round in this order.                *)
n_rows_per_packet(config) ==
    LET w      == module_n_x_pixels(config)
        blocks == w \div 12
        lines  == ((PACKET_N_DATA_BYTES_MAX \div (36 * blocks)) * blocks) \div 2
    IN  Least((lines * 48) \div w, module_n_y_pixels(config))

RowBytes(config, rows) == (module_n_x_pixels(config) * rows * 3) \div 2

Padded(config, rows) == rows % 2 = 1 /\ module_n_x_pixels(config) % 48 # 0

PaddedBytes(config, rows) ==
    RowBytes(config, rows) + (IF Padded(config, rows) THEN 36 ELSE 0)

n_data_bytes_per_packet(config) == PaddedBytes(config, n_rows_per_packet(config))

(* Slip: the division rounds down.                                            *)
n_full_packets_per_frame(config) ==
    LET packets == module_n_y_pixels(config) \div n_rows_per_packet(config)
    IN  IF packets = 0 THEN 1 ELSE packets

n_packets_per_frame(config) ==
    LET rows == n_rows_per_packet(config)
    IN  (module_n_y_pixels(config) + rows - 1) \div rows

last_packet_n_rows(config) ==
    LET left == module_n_y_pixels(config) % n_rows_per_packet(config)
    IN  IF left = 0 THEN n_rows_per_packet(config) ELSE left

last_packet_n_bytes(config) == RowBytes(config, last_packet_n_rows(config))

(* The receiver's view (std-udp-recv/src/gigafrost/main.cpp).                 *)
bytes_of_last_packet(config) == PaddedBytes(config, last_packet_n_rows(config))

bytes_of_frame(config) ==
    n_data_bytes_per_packet(config) * (n_packets_per_frame(config) - 1)
        + bytes_of_last_packet(config)

packet_starting_row(config, i) == i * n_rows_per_packet(config)

frame_buffer_offset(config, i) ==
    (packet_starting_row(config, i) * module_n_x_pixels(config) * 3) \div 2

(* The converter's view (std-data-convert-gf/src/main.cpp).                   *)
calculate_data_sizes(config) ==
    n_data_bytes_per_packet(config) * (n_packets_per_frame(config) - 1)
        + last_packet_n_bytes(config)
=============================================================================
