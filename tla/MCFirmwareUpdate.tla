--------------------------- MODULE MCFirmwareUpdate ---------------------------
(***************************************************************************)
(* A small instance of FirmwareUpdate: four blocks in two sectors below    *)
(* one sector of user data, and cards with a good image, a shorter one,    *)
(* one whose data do not match the header, and one that holds no image.    *)
(***************************************************************************)
EXTENDS FirmwareUpdate

FirstImage == <<"old", "old", "old", "old">>
Good == [hdr |-> "ok", data_len |-> 4, data_crc |-> <<"n1", "n2", "n1", "n2">>, data |-> <<"n1", "n2", "n1", "n2">>, rest |-> "n2"]
Short == [hdr |-> "ok", data_len |-> 1, data_crc |-> <<"s">>, data |-> <<"s">>, rest |-> Erased]
Corrupt == [Good EXCEPT !.data = <<"n1", "n2", "n1", "x">>]
Foreign == [hdr |-> "FW_IMAGE_ERROR", data_len |-> 0, data_crc |-> <<>>, data |-> <<"f", "f">>, rest |-> "f"]
SomeCards == {Good, Short, Corrupt, Foreign}
===============================================================================
