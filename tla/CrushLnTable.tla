---------------------------- MODULE CrushLnTable ----------------------------
(***************************************************************************)
(* The tables of include/crush_ln_table.h, entry for entry.  An entry has  *)
(* up to 49 bits: here it is a pair of the bits from 24 on and the lower   *)
(* 24 bits, which TLC can hold.                                            *)
(***************************************************************************)

(* __RH_LH_tbl[2k] and __RH_LH_tbl[2k+1] for k in 0 .. 128.                *)
RH_LH_tbl ==
  <<<<16777216, 0>>, <<0, 0>>, <<16647160, 1040448>>, <<188362, 1498593>>,
    <<16519104, 16519105>>, <<375269, 10580148>>, <<16393004, 15880724>>, <<560744, 15370650>>,
    <<16268815, 8642809>>, <<744809, 12240766>>, <<16146493, 9965415>>, <<927485, 6063445>>,
    <<16025997, 6260156>>, <<1108792, 10461855>>, <<15907286, 4722476>>, <<1288751, 14493681>>,
    <<15790320, 15790321>>, <<1467382, 16435475>>, <<15675063, 2081845>>, <<1644705, 7226931>>,
    <<15561475, 11914255>>, <<1820738, 4238763>>, <<15449522, 10862946>>, <<1995500, 1146789>>,
    <<15339168, 15339169>>, <<2169009, 1684723>>, <<15230380, 8091140>>, <<2341283, 3058262>>,
    <<15123124, 4725977>>, <<2512339, 12906844>>, <<15017368, 2815757>>, <<2682195, 15927278>>,
    <<14913080, 14913081>>, <<2850868, 7600045>>, <<14810232, 925640>>, <<3018373, 11132420>>,
    <<14708792, 1838600>>, <<3184727, 10509831>>, <<14608732, 5021752>>, <<3349946, 982241>>,
    <<14510024, 10882519>>, <<3514044, 5990873>>, <<14412641, 15651229>>, <<3677037, 10203803>>,
    <<14316557, 10961115>>, <<3838940, 9987250>>, <<14221746, 222215>>, <<3999767, 13540564>>,
    <<14128181, 15011194>>, <<4159533, 7472336>>, <<14035840, 14035841>>, <<4318251, 7258304>>,
    <<13944699, 217886>>, <<4475935, 7031853>>, <<13854733, 3571924>>, <<4632598, 13256641>>,
    <<13765920, 13765921>>, <<4788254, 11286556>>, <<13678239, 13357657>>, <<4942915, 15808106>>,
    <<13591668, 11043231>>, <<5096595, 3838775>>, <<13506186, 7808265>>, <<5249304, 15494161>>,
    <<13421772, 13421773>>, <<5401057, 3093614>>, <<13338407, 12608964>>, <<5551863, 15807066>>,
    <<13256071, 15120208>>, <<5701736, 15200090>>, <<13174746, 5146386>>, <<5850687, 9543150>>,
    <<13094412, 8184008>>, <<5998727, 3568691>>, <<13015052, 6914247>>, <<6145866, 15334380>>,
    <<12936648, 8085406>>, <<6292117, 9197681>>, <<12859183, 8740227>>, <<6437489, 13337288>>,
    <<12782640, 12782641>>, <<6581994, 2391132>>, <<12707003, 13997559>>, <<6725640, 14973068>>,
    <<12632256, 12632257>>, <<6868440, 2751873>>, <<12558383, 15207419>>, <<7010401, 15072381>>,
    <<12485370, 780336>>, <<7151535, 14475786>>, <<12413200, 4654951>>, <<7291851, 10985024>>,
    <<12341860, 771367>>, <<7431358, 11838829>>, <<12271335, 2205006>>, <<7570066, 4778337>>,
    <<12201611, 10676411>>, <<7707983, 8440744>>, <<12132675, 16398070>>, <<7845119, 5310681>>,
    <<12064514, 14703628>>, <<7981482, 8887635>>, <<11997115, 5904831>>, <<8117081, 13411208>>,
    <<11930464, 11930465>>, <<8251925, 10693659>>, <<11864550, 9083797>>, <<8386022, 6950910>>,
    <<11799360, 11799361>>, <<8519380, 6077643>>, <<11734883, 5409048>>, <<8652007, 9698177>>,
    <<11671106, 13129996>>, <<8783912, 438741>>, <<11608019, 12061458>>, <<8915101, 9084487>>,
    <<11545611, 180401>>, <<9045583, 13963050>>, <<11483869, 13009072>>, <<9175366, 8099003>>,
    <<11422785, 6068355>>, <<9304456, 16035456>>, <<11362347, 5769943>>, <<9432862, 9991177>>,
    <<11302545, 8653512>>, <<9560590, 10565950>>, <<11243369, 14844762>>, <<9687648, 2895455>>,
    <<11184810, 11184811>>, <<9814042, 3800022>>, <<11126858, 4694144>>, <<9939779, 11491833>>,
    <<11069503, 5707713>>, <<10064867, 5612773>>, <<11012736, 11012737>>, <<10189311, 14380171>>,
    <<10956549, 3766314>>, <<10313119, 13959435>>, <<10900932, 3747196>>, <<10436297, 12385152>>,
    <<10845877, 169467>>, <<10558851, 16040789>>, <<10791375, 1939076>>, <<10680788, 12914745>>,
    <<10737418, 4026532>>, <<10802114, 6187228>>, <<10683998, 4173437>>, <<10922834, 14261878>>,
    <<10631107, 2823888>>, <<11042956, 3687751>>, <<10578737, 3057917>>, <<11162484, 6629916>>,
    <<10526880, 10526881>>, <<11281425, 3458281>>, <<10475529, 16613536>>, <<11399784, 6662305>>,
    <<10424677, 15148361>>, <<11517567, 10547277>>, <<10374317, 2350432>>, <<11634780, 8038786>>,
    <<10324440, 10324441>>, <<11751428, 7486534>>, <<10275041, 6341628>>, <<11867516, 15913080>>,
    <<10226112, 10226113>>, <<11983051, 5484746>>, <<10177647, 10416187>>, <<12098036, 14199651>>,
    <<10129639, 14244807>>, <<12212478, 11694138>>, <<10082082, 14335462>>, <<12326381, 16706866>>,
    <<10034970, 5331078>>, <<12439751, 13215767>>, <<9988296, 624269>>, <<12552593, 792184>>,
    <<9942053, 15534460>>, <<12664910, 11400067>>, <<9896238, 154629>>, <<12776709, 8754137>>,
    <<9850842, 7080293>>, <<12887994, 5781372>>, <<9805861, 6818139>>, <<12998769, 14309853>>,
    <<9761289, 5185685>>, <<13109040, 11534358>>, <<9717120, 9717121>>, <<13218811, 7144793>>,
    <<9673349, 12847418>>, <<13328086, 9790895>>, <<9629971, 8651928>>, <<13436870, 10323714>>,
    <<9586980, 9586981>>, <<13545167, 15368325>>, <<9544371, 12899815>>, <<13652982, 13787273>>,
    <<9502140, 593884>>, <<13760319, 10252480>>, <<9460280, 6503943>>, <<13867182, 8485126>>,
    <<9418787, 15599868>>, <<13973575, 11272358>>, <<9377657, 14286276>>, <<14079503, 3706433>>,
    <<9336885, 7148553>>, <<14184969, 3532355>>, <<9296466, 145258>>, <<14289977, 10831876>>,
    <<9256395, 578525>>, <<14394532, 8038806>>, <<9216668, 288021>>, <<14498637, 10285643>>,
    <<9177280, 9177281>>, <<14602296, 15086579>>, <<9138228, 4854684>>, <<14705514, 2351854>>,
    <<9099506, 16492857>>, <<14808293, 1510658>>, <<9061112, 7362154>>, <<14910637, 7638798>>,
    <<9023040, 9023041>>, <<15012550, 15026584>>, <<8985287, 3860866>>, <<15114037, 414792>>,
    <<8947848, 8947849>>, <<15215099, 6893636>>, <<8910720, 8910721>>, <<15315741, 9697678>>,
    <<8873899, 6239461>>, <<15415967, 104272>>, <<8837381, 4487733>>, <<15515779, 2222896>>,
    <<8801162, 8251090>>, <<15615181, 5898155>>, <<8765239, 6368495>>, <<15714177, 275833>>,
    <<8729608, 5456006>>, <<15812769, 7368714>>, <<8694265, 13109323>>, <<15910961, 14958870>>,
    <<8659208, 4329605>>, <<16008757, 10163027>>, <<8624432, 5390271>>, <<16106159, 12997703>>,
    <<8589934, 9932112>>, <<16203171, 9280842>>, <<8555711, 12499361>>, <<16299796, 973745>>,
    <<8521760, 8521761>>, <<16396036, 6191154>>, <<8488077, 11074289>>, <<16491895, 8879485>>,
    <<8454660, 528417>>, <<16587376, 9158161>>, <<8421504, 8421505>>, <<16682482, 6551895>>,
    <<8388608, 0>>, <<16776960, 0>>>>

(* __LL_tbl[k] for k in 0 .. 255.                                          *)
LL_tbl ==
  <<<<0, 0>>, <<738, 10881536>>, <<1804, 11947717>>, <<2543, 5295719>>,
    <<3281, 15042813>>, <<4020, 7634588>>, <<4758, 16625502>>, <<5497, 8461144>>,
    <<6235, 16695969>>, <<6974, 7775570>>, <<7712, 15254400>>, <<8451, 5578051>>,
    <<9189, 12300978>>, <<9928, 1868772>>, <<10666, 7835888>>, <<11404, 13425133>>,
    <<12143, 1859314>>, <<12881, 6692887>>, <<13619, 11148657>>, <<14357, 15226650>>,
    <<15096, 2149670>>, <<15834, 5472174>>, <<16572, 8416968>>, <<17310, 10984076>>,
    <<18048, 13173520>>, <<18786, 14985324>>, <<19524, 16419510>>, <<20263, 698886>>,
    <<21001, 1377906>>, <<21739, 1679379>>, <<22477, 1603325>>, <<23215, 1149770>>,
    <<23953, 318735>>, <<24690, 15887460>>, <<25428, 14301536>>, <<26166, 12338202>>,
    <<26904, 9997480>>, <<27642, 7279394>>, <<28380, 4183967>>, <<29118, 711221>>,
    <<29855, 13638397>>, <<30593, 9411084>>, <<31331, 4806522>>, <<32068, 16601950>>,
    <<32806, 11242958>>, <<33544, 5506787>>, <<34281, 16170674>>, <<35019, 9680210>>,
    <<35757, 2812636>>, <<36494, 12345189>>, <<37232, 4723461>>, <<37969, 13501907>>,
    <<38707, 5126117>>, <<39444, 13150547>>, <<40182, 4020787>>, <<40919, 11291293>>,
    <<41648, 8336472>>, <<42394, 7924330>>, <<43131, 14064123>>, <<43869, 3049840>>,
    <<44606, 8435939>>, <<45343, 13445225>>, <<46081, 1300504>>, <<46818, 5556234>>,
    <<47555, 9435219>>, <<48292, 12937484>>, <<49029, 16063050>>, <<49767, 2034726>>,
    <<50504, 4406966>>, <<51241, 6402577>>, <<51978, 8021581>>, <<52715, 9264002>>,
    <<53452, 10129864>>, <<54189, 10619187>>, <<54926, 10731997>>, <<55663, 10468315>>,
    <<56400, 9828164>>, <<57137, 8811568>>, <<57874, 7418549>>, <<58611, 5649130>>,
    <<59348, 3503334>>, <<60085, 981185>>, <<60821, 14859920>>, <<61558, 11585132>>,
    <<62295, 7934058>>, <<63032, 3906722>>, <<63768, 16280362>>, <<64505, 11500570>>,
    <<65242, 6344584>>, <<65979, 812428>>, <<66715, 11681340>>, <<67452, 5396911>>,
    <<68188, 15513596>>, <<68925, 8476986>>, <<69662, 1064319>>, <<70398, 10052836>>,
    <<71135, 1888126>>, <<71871, 10124644>>, <<72608, 1207981>>, <<73344, 8692593>>,
    <<74080, 15801286>>, <<74817, 5756867>>, <<75553, 12113791>>, <<76290, 1317648>>,
    <<77026, 6922894>>, <<77762, 12152335>>, <<78499, 228778>>, <<79235, 4706679>>,
    <<79971, 8808844>>, <<80707, 12535295>>, <<81443, 15886057>>, <<82180, 2083934>>,
    <<82916, 4683384>>, <<83652, 6907211>>, <<84388, 8755440>>, <<85124, 10228092>>,
    <<85860, 11325192>>, <<86596, 12046761>>, <<87332, 12392822>>, <<88068, 12363399>>,
    <<88804, 11958514>>, <<89540, 11178190>>, <<90276, 10022449>>, <<91012, 8491316>>,
    <<91748, 6584812>>, <<92484, 4302960>>, <<93220, 1645783>>, <<93686, 13244861>>,
    <<94691, 11982762>>, <<95427, 8199748>>, <<96163, 4041500>>, <<96898, 16285257>>,
    <<97634, 11376610>>, <<98370, 6092798>>, <<98992, 8336472>>, <<99841, 11176985>>,
    <<100577, 4767814>>, <<101312, 14760786>>, <<102048, 7601490>>, <<102784, 67165>>,
    <<103519, 8935051>>, <<104255, 650738>>, <<104990, 8768682>>, <<105725, 16511688>>,
    <<106461, 7102563>>, <<107196, 14095763>>, <<107932, 3936878>>, <<108667, 10180363>>,
    <<109402, 16049024>>, <<110138, 4765669>>, <<110873, 9884752>>, <<111608, 14629081>>,
    <<112344, 2221461>>, <<113079, 6216347>>, <<113814, 9836547>>, <<114549, 13082083>>,
    <<115284, 15952977>>, <<116020, 1672037>>, <<116755, 3793718>>, <<117490, 5540825>>,
    <<118225, 6913383>>, <<118960, 7911413>>, <<119695, 8534938>>, <<120430, 8783981>>,
    <<121165, 8658566>>, <<121900, 8158713>>, <<122635, 7284447>>, <<123370, 6035790>>,
    <<124105, 4412765>>, <<124840, 2415395>>, <<125575, 43701>>, <<126309, 14074923>>,
    <<127044, 10954653>>, <<127779, 7460127>>, <<128514, 3591370>>, <<129248, 16125619>>,
    <<129983, 11508467>>, <<130718, 6517150>>, <<131453, 1151692>>, <<132187, 12189332>>,
    <<132922, 6075661>>, <<133568, 7234066>>, <<134391, 9503338>>, <<135126, 2267516>>,
    <<135856, 8336472>>, <<136595, 3451096>>, <<137329, 11870544>>, <<138064, 3138839>>,
    <<138602, 7579535>>, <<139533, 1330926>>, <<140267, 8254764>>, <<141001, 14804755>>,
    <<141736, 4203707>>, <<142371, 6789966>>, <<143204, 15434664>>, <<143939, 3712283>>,
    <<144673, 8393385>>, <<145407, 12700777>>, <<145964, 3870372>>, <<146707, 15630427>>,
    <<147509, 15278623>>, <<148344, 9416485>>, <<149078, 11855669>>, <<149485, 6581246>>,
    <<150546, 15613336>>, <<151281, 154650>>, <<152015, 1099673>>, <<152722, 6573413>>,
    <<153483, 1869294>>, <<154217, 1693936>>, <<154899, 15630427>>, <<155685, 222998>>,
    <<156310, 4536450>>, <<157152, 14035795>>, <<157886, 11993587>>, <<158620, 9578078>>,
    <<159026, 16226473>>, <<160088, 3627243>>, <<160822, 91963>>, <<161555, 12960688>>,
    <<162289, 8679007>>, <<163023, 4024161>>, <<163429, 8433355>>, <<164490, 10372275>>,
    <<165224, 4598066>>, <<165821, 12538453>>, <<166691, 8707658>>, <<167187, 15630427>>,
    <<167989, 15278623>>, <<168598, 4536450>>, <<169625, 12450657>>, <<170242, 10713771>>,
    <<171092, 12084425>>, <<171498, 12390531>>, <<172559, 10226613>>, <<173255, 6315361>>,
    <<174013, 12538453>>, <<174432, 5692156>>, <<175165, 11474159>>, <<175899, 106186>>,
    <<176790, 4536450>>, <<177616, 2283535>>, <<178426, 4660403>>, <<178832, 1238803>>,
    <<179565, 4784588>>, <<180298, 7957750>>, <<181031, 10758310>>, <<181786, 6197068>>,
    <<182497, 15241718>>, <<183231, 147394>>, <<183964, 1457774>>, <<184697, 2395667>>,
    <<185430, 2961094>>, <<186163, 3154077>>, <<186896, 2974640>>, <<187629, 2422804>>>>
=============================================================================
