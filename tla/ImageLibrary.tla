----------------------------- MODULE ImageLibrary -----------------------------
(***************************************************************************)
(* ImageLibraryService: a directory of images that services may show.      *)
(*                                                                         *)
(* A new volume is seeded once with the images that come with the program; *)
(* a marker file records that this is done.  Uploads and removals run one  *)
(* after the other, in the order in which they were asked for; services    *)
(* change their images meanwhile.  The server may stop between any two     *)
(* file operations.                                                        *)
(*                                                                         *)
(* Contents, sizes and the validation of an upload are left out: a bad     *)
(* upload changes nothing.  So are the temporary files that a crash leaves *)
(* behind: neither the list nor the limits count them.                     *)
(***************************************************************************)
EXTENDS Integers, FiniteSets, Sequences

CONSTANTS
    Clients,    \* requests that may be waiting together
    Names,      \* file names
    Seed,       \* images that come with the program
    protectedNames, \* images of the program itself
    Shows,      \* services that may show an image
    NoImage,    \* no image
    maxImages

ASSUME LibraryConstants ==
    /\ Seed \subseteq Names /\ protectedNames \subseteq Names /\ NoImage \notin Names
    /\ IsFiniteSet(Names)
    /\ maxImages \in Nat

VARIABLES
    files,      \* images in the directory
    marker,     \* TRUE when the marker file is there
    phase,      \* of the server: "down", "seeding", "up"
    seeds,      \* seed images that are still to be copied
    image,      \* image[v]: the image that service v shows
    mutations,  \* the requests that run and wait in exclusive(), in order
    client,     \* client[c]: program counter and locals of request c
    deleted,    \* history: images that were removed and not uploaded since
    late        \* history: services given an image that was missing or being removed

libraryVars == <<files, marker, phase, seeds, image, mutations, client, deleted, late>>

Client == [pc : {"idle", "list", "write", "unlink"}, kind : {"none", "upload", "remove"},
           name : Names \cup {NoImage}]

NoClient == [pc |-> "idle", kind |-> "none", name |-> NoImage]

(* A volume that is new; services may have images from elsewhere.            *)
LibraryInit ==
    /\ files = {}
    /\ marker = FALSE
    /\ phase = "down"
    /\ seeds = {}
    /\ image = [v \in Shows |-> NoImage]
    /\ mutations = <<>>
    /\ client = [c \in Clients |-> NoClient]
    /\ deleted = {}
    /\ late = {}

-----------------------------------------------------------------------------
(* initialize(): main.ts awaits it before the server listens *)

(* Mutant: the directory is seeded at every start. *)
SeedAlways == TRUE

NeedsSeed == ~marker

Initialize ==
    /\ phase = "down"
    /\ IF NeedsSeed THEN phase' = "seeding" /\ seeds' = Seed
                    ELSE phase' = "up" /\ seeds' = {}
    /\ UNCHANGED <<files, marker, image, mutations, client, deleted, late>>

(* writeNew() refuses to overwrite, and seeding goes on.                     *)
CopySeed(n) ==
    /\ phase = "seeding"
    /\ n \in seeds
    /\ files' = files \cup {n}
    /\ seeds' = seeds \ {n}
    /\ UNCHANGED <<marker, phase, image, mutations, client, deleted, late>>

WriteMarker ==
    /\ phase = "seeding"
    /\ seeds = {}
    /\ marker' = TRUE
    /\ phase' = "up"
    /\ UNCHANGED <<files, seeds, image, mutations, client, deleted, late>>

(* A crash, or a file operation that fails while the server starts.          *)
Halt ==
    /\ phase # "down"
    /\ phase' = "down"
    /\ seeds' = {}
    /\ mutations' = <<>>
    /\ client' = [c \in Clients |-> NoClient]
    /\ UNCHANGED <<files, marker, image, deleted, late>>

-----------------------------------------------------------------------------
(* upload(), remove() *)

(* exclusive(): the request joins the end of the chain.                      *)
Ask(c, kind, n) ==
    /\ phase = "up"
    /\ client[c] = NoClient
    /\ client' = [client EXCEPT ![c] = [pc |-> "list", kind |-> kind, name |-> n]]
    /\ mutations' = Append(mutations, c)
    /\ UNCHANGED <<files, marker, phase, seeds, image, deleted, late>>

(* Mutant: requests do not wait for each other. *)
AnyTurn(c) == \E i \in 1..Len(mutations) : mutations[i] = c

(* The action runs once those before it have settled.                        *)
Turn(c) == mutations # <<>> /\ Head(mutations) = c

(* A request that ran leaves the chain, whether it failed or not.            *)
Settle(c) ==
    /\ client' = [client EXCEPT ![c] = NoClient]
    /\ mutations' = Tail(mutations)

Full == Cardinality(files) >= maxImages

(* Mutant: the list reads the first page of services alone. *)
FirstUser(n) == {v \in {CHOOSE w \in Shows : TRUE} : image[v] = n}

(* usedBy: all services are read, enabled or not.                            *)
UsedBy(n) == {v \in Shows : image[v] = n}

Removable(n) == n \in files /\ n \notin protectedNames /\ UsedBy(n) = {}

(* list() and the checks on what it returns.  It reads the services before   *)
(* the directory, which nothing else changes meanwhile.                      *)
List(c) ==
    LET n == client[c].name
        accepted == IF client[c].kind = "upload" THEN ~Full ELSE Removable(n)
    IN
    /\ client[c].pc = "list"
    /\ Turn(c)
    /\ IF accepted
       THEN /\ client' = [client EXCEPT ![c].pc = IF client[c].kind = "upload" THEN "write" ELSE "unlink"]
            /\ UNCHANGED mutations
       ELSE Settle(c)
    /\ UNCHANGED <<files, marker, phase, seeds, image, deleted, late>>

(* writeNew(): the link to the complete file refuses to overwrite.           *)
WriteNew(c) ==
    LET n == client[c].name IN
    /\ client[c].pc = "write"
    /\ files' = files \cup {n}
    /\ deleted' = deleted \ {n}
    /\ Settle(c)
    /\ UNCHANGED <<marker, phase, seeds, image, late>>

Unlink(c) ==
    LET n == client[c].name IN
    /\ client[c].pc = "unlink"
    /\ files' = files \ {n}
    /\ deleted' = deleted \cup {n}
    /\ Settle(c)
    /\ UNCHANGED <<marker, phase, seeds, image, late>>

-----------------------------------------------------------------------------
(* ServiceManagementService.updateImageUrl, delete: nobody looks whether the *)
(* image exists.                                                             *)
SetImage(v, n) ==
    /\ phase = "up"
    /\ n # image[v]
    /\ image' = [image EXCEPT ![v] = n]
    /\ late' = IF n # NoImage /\ (n \notin files \/ \E c \in Clients :
                                     client[c].pc = "unlink" /\ client[c].name = n)
               THEN late \cup {v} ELSE late \ {v}
    /\ UNCHANGED <<files, marker, phase, seeds, mutations, client, deleted>>

LibraryNext ==
    \/ Initialize \/ WriteMarker \/ Halt
    \/ \E n \in Names : CopySeed(n)
    \/ \E c \in Clients :
          \/ List(c) \/ WriteNew(c) \/ Unlink(c)
          \/ \E n \in Names : Ask(c, "upload", n) \/ Ask(c, "remove", n)
    \/ \E v \in Shows, n \in Names \cup {NoImage} : SetImage(v, n)

LibrarySpec == LibraryInit /\ [][LibraryNext]_libraryVars

-----------------------------------------------------------------------------
(* Types of all variables; a request waits once at most.                     *)
LibraryTypeOK ==
    /\ files \subseteq Names /\ seeds \subseteq Seed
    /\ marker \in BOOLEAN
    /\ phase \in {"down", "seeding", "up"}
    /\ image \in [Shows -> Names \cup {NoImage}]
    /\ client \in [Clients -> Client]
    /\ mutations \in Seq(Clients)
    /\ \A i, j \in 1..Len(mutations) : mutations[i] = mutations[j] => i = j
    /\ \A c \in Clients : client[c] # NoClient <=> \E i \in 1..Len(mutations) : mutations[i] = c
    /\ deleted \subseteq Names /\ late \subseteq Shows

(* However many uploads wait together and wherever the server stops, the     *)
(* library holds no more than maxImages images, or what it was seeded with.  *)
LibraryBounded ==
    Cardinality(files) <= maxImages \/ Cardinality(files) <= Cardinality(Seed)

(* "Deleted images must not reappear on restart" (imageLibrary.service 53),  *)
(* not even when the server stopped in the middle of the first start.        *)
DeletedStayDeleted == deleted \cap files = {}

(* An image that a service shows is not removed under it, unless the service *)
(* was given the image while the removal was between its check and its       *)
(* unlink, or never had a file (imageLibrary.service 199-209).               *)
ShownImagesStay ==
    \A v \in Shows \ late : image[v] # NoImage => image[v] \in files

=============================================================================
