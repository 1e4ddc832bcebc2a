-------------------------- MODULE PrototypeLoader --------------------------
(***************************************************************************)
(* The prototype loader of the lanzaboote crate (lanzaboote/src/main.rs): *)
(* it opens linux.efi on its own volume, reads it with read_all, a loop of *)
(* fixed-size chunk reads that stops at the first empty read, and starts  *)
(* it through the firmware's LoadImage/StartImage.  Every call is          *)
(* unwrapped.  The firmware's File.Read may return fewer bytes than asked  *)
(* for; it returns 0 only at the end of the file.  The chunk of 512 bytes  *)
(* is scaled down to ChunkSize.                                            *)
(***************************************************************************)
EXTENDS Naturals, Sequences

CONSTANTS
    Bytes,        \* byte values
    MaxFileLen,   \* longest linux.efi
    ChunkSize,    \* the 512-byte chunk of read_all, scaled
    NoFile,       \* no linux.efi on the volume
    NoValue

VARIABLES
    file,       \* contents of linux.efi, or NoFile
    pc,         \* "init", "logo", "open", "read", "load", "start", or a
                \* terminal label
    pos,        \* the firmware's file position
    buf,        \* read_all's buffer
    kernel      \* the bytes StartImage ran, NoValue before

vars == <<file, pc, pos, buf, kernel>>

Terminal == {"panicked", "returned", "kernel_running"}

\* The contents linux.efi may have.
Files == UNION {[1..n -> Bytes] : n \in 0..MaxFileLen}

Init ==
    /\ file \in Files \cup {NoFile}
    /\ pc = "init"
    /\ pos = 0
    /\ buf = <<>>
    /\ kernel = NoValue

\* uefi_services::init(&mut system_table).unwrap()
ServicesInit ==
    /\ pc = "init"
    /\ \E ok \in BOOLEAN : pc' = IF ok THEN "logo" ELSE "panicked"
    /\ UNCHANGED <<file, pos, buf, kernel>>

\* print_logo: output.clear().unwrap() and output_string(...).unwrap() on
\* the firmware console.
PrintLogo ==
    /\ pc = "logo"
    /\ \E ok \in BOOLEAN : pc' = IF ok THEN "open" ELSE "panicked"
    /\ UNCHANGED <<file, pos, buf, kernel>>

\* get_image_file_system, open_volume, open("linux.efi") and
\* into_regular_file, each unwrapped.
OpenFile ==
    /\ pc = "open"
    /\ \E ok \in BOOLEAN :
         pc' = IF ok /\ file # NoFile THEN "read" ELSE "panicked"
    /\ UNCHANGED <<file, pos, buf, kernel>>

\* What one image.read(&mut chunk) may return at position pos.
ReadSizes ==
    IF pos = Len(file) THEN {0}
    ELSE 1..(IF ChunkSize < Len(file) - pos THEN ChunkSize ELSE Len(file) - pos)

\* One iteration of read_all's loop: a read error is returned with ? and
\* unwrapped by main (line 80); an empty read breaks out of the loop;
\* otherwise the bytes read are appended to the buffer.
ReadChunk ==
    /\ pc = "read"
    /\ \/ \E n \in ReadSizes :
            IF n = 0
              THEN pc' = "load" /\ UNCHANGED <<pos, buf>>
              ELSE /\ buf' = buf \o SubSeq(file, pos + 1, pos + n)
                   /\ pos' = pos + n
                   /\ UNCHANGED pc
       \/ pc' = "panicked" /\ UNCHANGED <<pos, buf>>
    /\ UNCHANGED <<file, kernel>>

\* boot_services.load_image(FromBuffer { buffer: &kernel }).unwrap()
LoadImage ==
    /\ pc = "load"
    /\ \E ok \in BOOLEAN : pc' = IF ok THEN "start" ELSE "panicked"
    /\ UNCHANGED <<file, pos, buf, kernel>>

\* start_image(kernel_image).unwrap(); Status::SUCCESS.  The kernel either
\* keeps control or returns with a success or an error status.
StartImage ==
    /\ pc = "start"
    /\ kernel' = buf
    /\ pc' \in {"kernel_running", "returned", "panicked"}
    /\ UNCHANGED <<file, pos, buf>>

Next ==
    \/ ServicesInit
    \/ PrintLogo
    \/ OpenFile
    \/ ReadChunk
    \/ LoadImage
    \/ StartImage

Spec == Init /\ [][Next]_vars

-----------------------------------------------------------------------------
(* Properties.                                                             *)

(* The image the firmware starts is linux.efi byte for byte: read_all     *)
(* gathers every chunk, in order, whatever sizes the firmware's reads     *)
(* return (main.rs:42-58, 80-92).                                          *)
KernelIsFile == kernel # NoValue => kernel = file
=============================================================================
