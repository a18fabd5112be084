---------------------------- MODULE ImageParts ----------------------------
(* How an image is cut into the parts the stream senders and receivers carry  *)
(* (utils/src/image_size_calc.cpp). config is a DetectorConfig; the byte      *)
(* counts are size_t and never come near its width, except for the            *)
(* subtraction in calculate_image_bytes_sent, which wraps.                    *)
EXTENDS Integers

CONSTANT max_image_bytes(_)  \* byte size of the largest image of a detector type

LOCAL Least(a, b) == IF a < b THEN a ELSE b

converted_image_n_bytes(config) ==
    LET pixels == config.image_pixel_height * config.image_pixel_width
    IN  CASE config.detector_type = "gigafrost" -> pixels * 2
          [] config.detector_type \in {"eiger", "jungfrau-raw"} ->
                 (pixels * config.bit_depth) \div 8
          [] config.detector_type = "jungfrau-converted" -> pixels * 4

(* The size the parts are cut from: the image's own, or the largest one's.    *)
divided_bytes(config) == IF config.use_all_forwarders
                         THEN converted_image_n_bytes(config)
                         ELSE max_image_bytes(config.detector_type)

calculate_image_offset(config, part) ==
    IF config.sender_sends_full_images THEN 0
    ELSE (part * divided_bytes(config)) \div config.max_number_of_forwarders_spawned

max_single_sender_size(config) ==
    IF config.sender_sends_full_images THEN converted_image_n_bytes(config)
    ELSE divided_bytes(config) \div config.max_number_of_forwarders_spawned

(* Slip: the last part is as long as the others.                              *)
bytes_sent_unclipped(config, part) == max_single_sender_size(config)

(* A part that starts past the image has "negative" bytes left, which as a    *)
(* size_t is more than any sender's size.                                     *)
calculate_image_bytes_sent(config, part) ==
    LET left == converted_image_n_bytes(config) - calculate_image_offset(config, part)
    IN  IF left < 0 THEN max_single_sender_size(config)
                    ELSE Least(left, max_single_sender_size(config))

number_of_senders(config) ==
    LET size == max_single_sender_size(config)
    IN  CASE config.sender_sends_full_images -> 1
          [] ~config.sender_sends_full_images /\ config.use_all_forwarders ->
                 config.max_number_of_forwarders_spawned
          [] OTHER -> (converted_image_n_bytes(config) + size - 1) \div size
=============================================================================
