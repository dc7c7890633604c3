------------------------------ MODULE WindRose ------------------------------
(***************************************************************************)
(* The polar form: readings binned by compass sector and speed class.  A   *)
(* fraction is kept as its count, over the total of readings; a direction  *)
(* is a whole number of degrees, of any sign.                              *)
(***************************************************************************)
EXTENDS ChartScale

\* What a caller leaves at zero gets the default.
NoOptions == [sectors |-> 0, bands |-> <<>>, calmBelow |-> 0]

defaultSectors == 16
defaultSpeedBands == <<2 * Unit, 4 * Unit, 6 * Unit, 10 * Unit, 15 * Unit>>
defaultCalmBelow == Unit \div 2

Complete(pt) == pt.dir # Nil /\ pt.v # Nil

\* validateWindroseSpec, after the panel and the series have been counted.
ValidRose(opts, points) ==
    /\ opts.sectors # 0 => opts.sectors \in 4..72 /\ 360 % opts.sectors = 0
    /\ \A i \in 2..Len(opts.bands) : opts.bands[i - 1] < opts.bands[i]
    /\ opts.bands # <<>> => opts.bands[1] > 0
    /\ \E k \in DOMAIN points : Complete(points[k])

\* Mutant: a sector begins at its bearing.
SectorUncentred(dir, sectors) == ((dir % 360) * sectors) \div 360

\* Sectors are centred on their bearing: floor of (deg + w/2) / w, for w = 360/sectors.
Sector(dir, sectors) == ((2 * (dir % 360) * sectors + 360) \div 720) % sectors

speedBand(edges, v) ==
    LET below == {i \in DOMAIN edges : v < edges[i]}
    IN  IF below = {} THEN Len(edges) ELSE Min(below) - 1

\* Frequency gridlines, in percent, for the fullest sector's count.
roseRings(most, total) ==
    LET hi   == MaxOf(-((-most * 100 * Unit) \div total), Unit)
        nice == niceDomain(0, hi, TRUE)
    IN  [n \in 1..(nice.hi \div nice.step) |-> n * nice.step]

\* The readings of a rose whose options are settled.
Rose(sectors, edges, below, points) ==
    LET read    == {k \in DOMAIN points : Complete(points[k])}
        calm    == {k \in read : points[k].v < below}
        Count(sec, band) ==
            Cardinality({k \in read \ calm : /\ Sector(points[k].dir, sectors) = sec
                                             /\ speedBand(edges, points[k].v) = band})
        Bin(n)  == LET sec == (n - 1) \div (Len(edges) + 1)
                       band == (n - 1) % (Len(edges) + 1)
                   IN  [sector |-> sec, band |-> band, count |-> Count(sec, band)]
        SectorTotal(sec) ==
            Cardinality({k \in read \ calm : Sector(points[k].dir, sectors) = sec})
        most    == Max({SectorTotal(sec) : sec \in 0..sectors - 1})
    IN  [sectors |-> sectors, bands |-> edges, calmBelow |-> below,
         total |-> Cardinality(read), calm |-> Cardinality(calm), most |-> most,
         bins  |-> SelectSeq([n \in 1..sectors * (Len(edges) + 1) |-> Bin(n)],
                             LAMBDA bin : bin.count > 0),
         rings |-> roseRings(most, Cardinality(read))]

resolveRose(given, points) ==
    Rose(IF given.sectors = 0 THEN defaultSectors ELSE given.sectors,
         IF given.bands = <<>> THEN defaultSpeedBands ELSE given.bands,
         IF given.calmBelow = 0 THEN defaultCalmBelow ELSE given.calmBelow,
         points)

\* buildRose: a sector's classes stack outward, from the edge of the calm disc.
Wedges(rose) ==
    LET Inside(n) == {m \in 1..n - 1 : rose.bins[m].sector = rose.bins[n].sector}
        Cum(n) == rose.calm + SumFunctionOnSet([m \in DOMAIN rose.bins |-> rose.bins[m].count],
                                               Inside(n))
    IN  [n \in DOMAIN rose.bins |-> [bin |-> rose.bins[n], r0 |-> Cum(n),
                                     r1 |-> Cum(n) + rose.bins[n].count]]
=============================================================================
