-------------------------------- MODULE MCUart --------------------------------
(* An image of two pages, with bytes that are the end of a command (32) in *)
(* it, and the page that the application writes over one of them.          *)
EXTENDS Uart

MCImage == <<<<7, 32, 0, 0>>, <<32, 7, 7, 7>>>>
MCOwn == <<9, 9, 0, 9>>
=============================================================================
