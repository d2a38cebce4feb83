-------------------------- MODULE AddressSpacesMC ---------------------------
(***************************************************************************)
(* A small machine: frames of five words, five images.  Plain has one      *)
(* segment that ends with its page (and so maps one page more), with a     *)
(* header that is not loaded; Shared has two segments that meet inside a   *)
(* page, the second with zero-filled memory behind its data; NotElf fails  *)
(* the header check; Overlong has more file data than memory; High is      *)
(* linked into the kernel's part.                                          *)
(***************************************************************************)
EXTENDS AddressSpacesProps

Header(load, vaddr, offset, filesz, memsz) ==
  [load |-> load, vaddr |-> vaddr, offset |-> offset, filesz |-> filesz, memsz |-> memsz]

Plain == [valid |-> TRUE, file |-> <<1, 2>>,
          headers |-> <<Header(FALSE, 0, 0, 2, 2), Header(TRUE, 3, 0, 2, 2)>>]

Shared == [valid |-> TRUE, file |-> <<3, 1, 2, 3, 1>>,
           headers |-> <<Header(TRUE, 2, 0, 2, 2), Header(TRUE, 4, 2, 2, 3)>>]

NotElf == [valid |-> FALSE, file |-> <<1>>, headers |-> <<>>]

Overlong == [valid |-> TRUE, file |-> <<1, 2, 3>>, headers |-> <<Header(TRUE, 1, 0, 3, 1)>>]

High == [valid |-> TRUE, file |-> <<1>>, headers |-> <<Header(TRUE, W * W * (W - 1), 0, 1, 1)>>]

SomeImages == {Plain, Shared, NotElf, Overlong, High}

\* A word in the page of USER_STACK_TOP.
SomeWrites == {<<37, 3>>}

=============================================================================
