------------------------------ MODULE FilesMC -------------------------------
(***************************************************************************)
(* A small instance of the file layer: a file and a directory next to each *)
(* other, a file in that directory, a path with a slash too much, a file   *)
(* of the root directory and a device.                                     *)
(***************************************************************************)
EXTENDS FilesProps

SomePaths ==
  {<<"", "bin", "hello">>, <<"", "bin", "d">>, <<"", "bin", "d", "f">>,
   <<"", "bin", "">>, <<"", "f">>, <<"", "dev", "serial">>}

=============================================================================
