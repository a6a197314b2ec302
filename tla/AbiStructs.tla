----------------------------- MODULE AbiStructs -----------------------------
(***************************************************************************)
(* The structures of CloudABI that are written to structs.hpp, in the      *)
(* order in which they are, and the places where a type is qualified       *)
(* there.  The lists are read off structs.hpp, whose types are the         *)
(* generator's typenames: error is errno in CloudABI.                      *)
(***************************************************************************)
EXTENDS StructGenerator

M(t, n) == Simple("plain", t, n)
P(t, n) == Simple("pointer", t, n)

event == <<
  M("userdata", "userdata"), M("errno", "error"), M("eventtype", "type"),
  Variant(<<
    Alternative("clock", <<M("userdata", "identifier")>>),
    Alternative("condvar", <<P("condvar", "condvar")>>),
    Alternative("fd_readwrite",
      <<M("filesize", "nbytes"), M("fd", "fd"), M("eventrwflags", "flags")>>),
    Alternative("lock", <<P("lock", "lock")>>),
    Alternative("proc_terminate",
      <<M("fd", "fd"), M("signal", "signal"), M("exitcode", "exitcode")>>)>>)>>

fdstat == <<
  M("filetype", "fs_filetype"), M("fdflags", "fs_flags"),
  M("rights", "fs_rights_base"), M("rights", "fs_rights_inheriting")>>

filestat == <<
  M("device", "st_dev"), M("inode", "st_ino"), M("filetype", "st_filetype"),
  M("linkcount", "st_nlink"), M("filesize", "st_size"), M("timestamp", "st_atim"),
  M("timestamp", "st_mtim"), M("timestamp", "st_ctim")>>

recv_in == <<Range_("iovec", "ri_data"), Range_("fd", "ri_fds"), M("msgflags", "ri_flags")>>

send_in == <<Range_("ciovec", "si_data"), Range_("fd", "si_fds"), M("msgflags", "si_flags")>>

send_out == <<M("size", "so_datalen")>>

sockaddr == <<
  M("sa_family", "sa_family"),
  Variant(<<
    Alternative("sa_inet",  <<Simple("array", "uint8", "addr"), M("uint16", "port")>>),
    Alternative("sa_inet6", <<Simple("array", "uint8", "addr"), M("uint16", "port")>>)>>)>>

sockstat == <<
  M("sockaddr", "ss_sockname"), M("sockaddr", "ss_peername"),
  M("errno", "ss_error"), M("sstate", "ss_state")>>

subscription == <<
  M("userdata", "userdata"), M("subflags", "flags"), M("eventtype", "type"),
  Variant(<<
    Alternative("clock",
      <<M("userdata", "identifier"), M("clockid", "clock_id"), M("timestamp", "timeout"),
        M("timestamp", "precision"), M("subclockflags", "flags")>>),
    Alternative("condvar",
      <<P("condvar", "condvar"), P("lock", "lock"), M("scope", "condvar_scope"),
        M("scope", "lock_scope")>>),
    Alternative("fd_readwrite", <<M("fd", "fd"), M("subrwflags", "flags")>>),
    Alternative("lock", <<P("lock", "lock"), M("scope", "lock_scope")>>),
    Alternative("proc_terminate", <<M("fd", "fd")>>)>>)>>

recv_out == <<
  M("size", "ro_datalen"), M("size", "ro_fdslen"), M("sockaddr", "ro_sockname"),
  M("sockaddr", "ro_peername"), M("msgflags", "ro_flags")>>

Type(n, ms) == [name |-> n, members |-> ms]

(* iovec and ciovec are structure types too, but skipped.                  *)
Abi == <<
  Type("ciovec", <<>>), Type("event", event), Type("fdstat", fdstat),
  Type("filestat", filestat), Type("iovec", <<>>), Type("recv_in", recv_in),
  Type("send_in", send_in), Type("send_out", send_out), Type("sockaddr", sockaddr),
  Type("sockstat", sockstat), Type("subscription", subscription),
  Type("recv_out", recv_out)>>

AbiStructures == {Abi[k].name : k \in DOMAIN Abi}

(* None is not one of the names of members next to variants, nor of those  *)
(* of alternatives.  They are strings, but TLAPS has to be told.           *)
ASSUME NoneAssumption ==
  None \notin {"userdata", "error", "flags", "type", "sa_family", "clock", "condvar",
               "fd_readwrite", "lock", "proc_terminate", "sa_inet", "sa_inet6"}

(* The members of which structs.hpp has the type qualified.                *)
CheckedIn == {<<"event", "clock", "identifier">>, <<"subscription", "clock", "identifier">>}

-----------------------------------------------------------------------------
(* Every CloudABI structure is one that the generator can write, and what  *)
(* it writes is qualified exactly where structs.hpp is.                    *)
AbiAsCheckedIn ==
  \A s \in {x \in ToSet(out) : x.of \in ToSet(Abi)} :
    /\ Writable(s.of.members)
    /\ {x.path : x \in {y \in PlacesOf(s.members) : y.member.qualified}} =
         {Tail(path) : path \in {c \in CheckedIn : Head(c) = s.name}}
=============================================================================
