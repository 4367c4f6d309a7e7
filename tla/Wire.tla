-------------------------------- MODULE Wire --------------------------------
(***************************************************************************)
(* SCTP packets as they go on the wire: the lengths and checksums each     *)
(* builder puts into them, and the checks of sctp_check_checksums.         *)
(*                                                                         *)
(* An IP header has the words that vary: id stands for the sum of all the  *)
(* words a builder never looks at again.  A CRC32c is what it was computed *)
(* over: the bytes and their number.                                       *)
(***************************************************************************)
EXTENDS Checksum

MacSize == 14
IpSize == 20
CmnSize == 12
FldSize == 4
HdrSize == MacSize + IpSize + CmnSize

Words(ip) == <<ip.id, Htons(ip.len), ip.dest[1], ip.dest[2]>>
Ip(id, len, dest, check) == [id |-> id, len |-> len, dest |-> dest, check |-> check]

\* ip->check = 0; ip->check = ~ip_checksum (ip)
FullCheck(ip) == Complement(IpChecksum(Words(ip)))

\* generate_crc32c over n bytes from the common header on
Crc(body, fld, n) == [body |-> body, fld |-> fld, over |-> n]

Datagram(by, kind, ip, fld, body, over, size) ==
  [by |-> by, kind |-> kind, ip |-> ip, fld |-> fld, body |-> body,
   crc |-> Crc(body, fld, over), size |-> size]

-----------------------------------------------------------------------------
(***************************************************************************)
(* build_sctp_*_hdr: from the chunk outwards, every header in front of     *)
(* what is there, the lengths taken from the running plen                  *)
(***************************************************************************)
\* packet -= n; *plen += n, where plen is a u16
Prepend(f, n) == [packet |-> f.packet - n, plen |-> (f.plen + n) % W]

\* frame->packet += n
Skip(f, n) == [f EXCEPT !.packet = @ + n]

InitSize == 16
CookieSize == 40 + 16                  \* cookie_t and its HMAC
ParamSize == 4 + CookieSize            \* with the header of the parameter

InitHdrRaw(f) == Prepend(f, InitSize)
InitAckHdrRaw(f) == Prepend(f, InitSize)
CookieParamRaw(f) == Prepend(f, ParamSize)
CookieEchoHdrRaw(f) == Prepend(f, CookieSize)

\* The room each packet gets and its chunk without the header.  In a COOKIE
\* ECHO sizeof (sctp_cookie_echo_hdr_t), itself a chunk header, comes on top
\* of sizeof (sctp_fld_hdr_t).  (The last two free meta->add: every call is taken
\* to get memory of its own there.  Nothing in the repository calls them.)
BuildInit(f) == InitHdrRaw(Skip(f, HdrSize + FldSize + InitSize))

\* fault: no room is made for the cookie
BuildInitAckNoRoom(f) ==
  InitAckHdrRaw(CookieParamRaw(Skip(f, HdrSize + FldSize + InitSize)))

BuildInitAck(f) ==
  InitAckHdrRaw(CookieParamRaw(Skip(f, HdrSize + FldSize + InitSize + ParamSize)))

BuildCookieEcho(f) ==
  CookieEchoHdrRaw(Skip(f, HdrSize + FldSize + FldSize + CookieSize))

BuildCookieAck(f) == Skip(f, HdrSize + FldSize)

Kinds == {"init", "init_ack", "cookie_echo", "cookie_ack"}
BuildChunk(f, kind) == CASE kind = "init" -> BuildInit(f)
                         [] kind = "init_ack" -> BuildInitAck(f)
                         [] kind = "cookie_echo" -> BuildCookieEcho(f)
                         [] kind = "cookie_ack" -> BuildCookieAck(f)

\* fault: the length of the chunk does not count its header
FldLenShort(f) == f.plen

\* The length the callers give build_sctp_fld_hdr_raw
FldLen(f) == (f.plen + FldSize) % W

FldHdrRaw(f) == Prepend(f, FldSize)
CmnHdrRaw(f) == Prepend(f, CmnSize)    \* its CRC goes over plen bytes
MacRaw(f) == Prepend(f, MacSize)

\* build_ip_raw
IpRaw(f, id, dest) == LET ip == Ip(id, (f.plen + IpSize) % W, dest, 0)
                      IN  [ip EXCEPT !.check = FullCheck(ip)]

\* The frame after all headers, and the packet that starts there
Raw(f, kind, id, dest, body) ==
  LET chunk == BuildChunk(f, kind)
      cmn   == CmnHdrRaw(FldHdrRaw(chunk))
      mac   == MacRaw(Prepend(cmn, IpSize))
  IN  [frame  |-> mac,
       packet |-> Datagram("raw", kind, IpRaw(cmn, id, dest), FldLen(chunk), body,
                           cmn.plen, mac.plen)]

\* plen does not wrap while the headers are put in front of the chunk.
RawFits(f, kind) == BuildChunk(f, kind).plen + FldSize + HdrSize < W

-----------------------------------------------------------------------------
(***************************************************************************)
(* The prefilled packets: headers once, and their checksum updated for     *)
(* each packet                                                             *)
(***************************************************************************)
\* prefill_mac_ip_sctp: a length of zero
Prefill(id, dest) == LET ip == Ip(id, 0, dest, 0)
                     IN  [ip EXCEPT !.check = FullCheck(ip)]

\* build_prefilled_sctp_init_hdr
PrefilledInit(id, dest, body) ==
  LET ip  == Prefill(id, dest)
      fld == FldSize + InitSize
      len == IpSize + CmnSize + fld
  IN  Datagram("prefilled", "init",
               [ip EXCEPT !.len = len, !.check = Adjust(@, 0, Htons(len))],
               fld, body, len - IpSize, len + MacSize)

\* The chunk of build_prefilled_mac_ip_sctp_*_hdr
ChunkSize(kind) == CASE kind = "init_ack" -> FldSize + InitSize + ParamSize
                     [] kind = "cookie_echo" -> FldSize + CookieSize
                     [] kind = "cookie_ack" -> FldSize

\* The address that is stored and taken off the checksum: a COOKIE ECHO keeps
\* the one that is there.
StoreDest(ip, kind, dest) == IF kind = "cookie_echo" THEN ip.dest ELSE dest
Off(kind, dest) == IF kind = "cookie_echo" THEN <<0, 0>> ELSE dest

InPlace(ip, kind, dest, body) ==
  LET fld == ChunkSize(kind)
      len == IpSize + CmnSize + fld
  IN  Datagram("in_place", kind,
               Ip(ip.id, len, StoreDest(ip, kind, dest),
                  TakeOff(ip.check, Htons(len), Off(kind, dest))),
               fld, body, CmnSize + fld, MacSize + len)

\* fault: the checksum of the header is left as it was found
DataKeepsCheck(ip, fld, more, body) ==
  Datagram("data", "data", ip, fld, body, CmnSize + fld + more, HdrSize + fld + more)

\* build_prefilled_mac_ip_sctp_data_hdr: the length in the IP header stays,
\* the CRC goes over the padding and the other chunk of the packet too.
Data(ip, fld, more, body) ==
  Datagram("data", "data", [ip EXCEPT !.check = TcpChecksum(Words(ip), 0)], fld, body,
           CmnSize + fld + more, HdrSize + fld + more)

\* prefill_sctp_mac_ip fills in no checksum, eth_send_sctp the length only.
XdpHeader(id, dest) == Ip(id, 0, dest, 0)
XdpInit(id, dest, body) ==
  LET fld == FldSize + InitSize
      len == IpSize + CmnSize + fld
  IN  [Datagram("xdp", "init", [XdpHeader(id, dest) EXCEPT !.len = len], fld, body, 0,
                MacSize + len)
       EXCEPT !.crc = Crc(0, 0, 0)]

-----------------------------------------------------------------------------
\* fault: the length of the packet is not looked at
ChecksumsOkAnyLength(d) == /\ d.ip.check = FullCheck(d.ip)
                           /\ d.crc = Crc(d.body, d.fld, CmnSize + d.fld)

\* fault: the CRC is computed and not compared
ChecksumsOkNoCrc(d) == /\ d.size >= HdrSize
                       /\ d.ip.check = FullCheck(d.ip)
                       /\ d.ip.len >= IpSize + CmnSize + FldSize

\* sctp_check_checksums.  The CRC goes over as many bytes as the chunk says,
\* whatever was received: what the buffer holds behind a packet is taken to be
\* other bytes than those the sender's CRC was computed over.
ChecksumsOk(d) == /\ d.size >= HdrSize
                  /\ d.ip.check = FullCheck(d.ip)
                  /\ d.ip.len >= IpSize + CmnSize + FldSize
                  /\ d.crc = Crc(d.body, d.fld, CmnSize + d.fld)
=============================================================================
